---- MODULE Spec2Model ----
(***************************************************************************)
(* Model of the transcript paragraph/word reconciliation engine            *)
(* (api/services/transcript_processor.py, TranscriptProcessor) and of the  *)
(* version store (api/services/version_manager.py,                         *)
(* DeepgramVersionManager).                                                *)
(*                                                                         *)
(* Texts are sequences of one-character strings, so that str.split,        *)
(* str.strip, str.lower and len are computed and not assumed.  Times and   *)
(* confidences are exact rationals <<numerator, denominator>> in lowest    *)
(* terms, in seconds; the code uses IEEE doubles, whose rounding is not    *)
(* modelled.                                                               *)
(***************************************************************************)
EXTENDS Integers, Sequences, FiniteSets, TLC

VARIABLES
    doc,      \* the Deepgram response the caller holds (first channel, first alternative)
    paras,    \* result of the caller's last extract_paragraphs(doc)
    upd,      \* record of the last update_paragraph_text call
    edits,    \* number of update_paragraph_text calls made
    rc,       \* one calculate_timing_adjustments call: its arguments and result
    qry,      \* one time query on doc: its arguments and result
    files,    \* version store: the artifact file v{n}.json of each version number n
    metaFile, \* version store: the file metadata.json of the source key
    cache,    \* the legacy cache files present in the cache directory
    clock,    \* datetime.now(), counted in save_version calls
    allocated,\* history: the version numbers save_version has allocated, in order
    faults,   \* history: number of I/O faults injected
    ret,      \* the last version store call and what it returned
    calls,    \* concurrent store: each request's call in progress, its position and locals
    started,  \* concurrent store: number of calls begun
    raced,    \* history: a writing call began while another writing call was in progress
    active_jobs,     \* job manager: the TranscriptionProgress of each job, by job id
    job_queue,       \* job manager: the job ids waiting in the asyncio.Queue
    processing_jobs, \* job manager: the job ids being transcribed
    tasks,           \* job manager: the position of each coroutine of the event loop
    cancelled        \* history: the job ids cancel_job has returned True for

editVars == <<doc, paras, upd, edits, rc, qry>>
callVars == <<calls, started, raced>>
storeVars == <<files, metaFile, cache, clock, allocated, faults, ret, calls, started, raced>>
jobVars == <<active_jobs, job_queue, processing_jobs, tasks, cancelled>>
vars == <<doc, paras, upd, edits, rc, qry, files, metaFile, cache, clock, allocated, faults, ret,
          calls, started, raced, active_jobs, job_queue, processing_jobs, tasks, cancelled>>

-----------------------------------------------------------------------------
(* Bounds *)

MaxWords == 3          \* words in an initial document
MaxEditTokens == 2     \* tokens of a new text in update_paragraph_text
MaxTextLen == 5        \* characters of a new text in calculate_timing_adjustments
MaxEdits == 1          \* update_paragraph_text calls in one behaviour
MaxVersions == 3       \* version numbers 0..MaxVersions-1 can be allocated
MaxSaves == 3          \* save_version calls in one behaviour
MaxFaults == 1         \* injected I/O faults in one behaviour
MaxCalls == 3          \* calls begun in one behaviour of the concurrent store
MaxQueryWords == 3     \* words in a document a time query is made on
MaxTime == 4           \* word starts and ends of such a document, in seconds
MaxJobs == 2            \* transcription jobs started

-----------------------------------------------------------------------------
(* Rational arithmetic (Python floats) *)

Abs(x) == IF x < 0 THEN -x ELSE x

RECURSIVE GCD(_, _)
GCD(a, b) == IF b = 0 THEN a ELSE GCD(b, a % b)

\* n/d in lowest terms, d > 0
R(n, d) ==
    LET g == GCD(Abs(n), d)
    IN  IF n = 0 THEN <<0, 1>> ELSE <<n \div g, d \div g>>

RAdd(a, b) == R(a[1] * b[2] + b[1] * a[2], a[2] * b[2])
RSub(a, b) == R(a[1] * b[2] - b[1] * a[2], a[2] * b[2])
RMulInt(k, a) == R(k * a[1], a[2])
RDivInt(a, k) == R(a[1], a[2] * k)
RLe(a, b) == a[1] * b[2] <= b[1] * a[2]
RLt(a, b) == a[1] * b[2] < b[1] * a[2]
RMin(a, b) == IF RLe(a, b) THEN a ELSE b
RMax(a, b) == IF RLe(a, b) THEN b ELSE a

Zero == R(0, 1)

-----------------------------------------------------------------------------
(* Strings *)

Space == " "
Alphabet == {"a", "B", Space}

\* str.lower on one character
LowerChar(c) == IF c = "A" THEN "a" ELSE IF c = "B" THEN "b" ELSE c

lower(s) == [i \in 1..Len(s) |-> LowerChar(s[i])]

RECURSIVE lstrip(_)
lstrip(s) == IF s # <<>> /\ Head(s) = Space THEN lstrip(Tail(s)) ELSE s

RECURSIVE rstrip(_)
rstrip(s) ==
    IF s # <<>> /\ s[Len(s)] = Space THEN rstrip(SubSeq(s, 1, Len(s) - 1)) ELSE s

strip(s) == rstrip(lstrip(s))

\* str.split(): the maximal runs of non-whitespace characters, in order
RECURSIVE SplitFrom(_, _, _)
SplitFrom(s, cur, acc) ==
    IF s = <<>> THEN (IF cur = <<>> THEN acc ELSE Append(acc, cur))
    ELSE IF Head(s) = Space
         THEN SplitFrom(Tail(s), <<>>, IF cur = <<>> THEN acc ELSE Append(acc, cur))
         ELSE SplitFrom(Tail(s), Append(cur, Head(s)), acc)

split(s) == SplitFrom(s, <<>>, <<>>)

\* " ".join(parts)
RECURSIVE join(_)
join(parts) ==
    IF parts = <<>> THEN <<>>
    ELSE IF Len(parts) = 1 THEN parts[1]
    ELSE LET mid == Len(parts) \div 2
         IN  join(SubSeq(parts, 1, mid)) \o <<Space>>
                 \o join(SubSeq(parts, mid + 1, Len(parts)))

\* all texts of at most n characters
RECURSIVE TextsUpTo(_)
TextsUpTo(n) ==
    IF n = 0 THEN {<<>>}
    ELSE LET S == TextsUpTo(n - 1)
         IN  S \cup {Append(t, c) : t \in {u \in S : Len(u) = n - 1}, c \in Alphabet}

\* the texts of at most n tokens "a" or "B", single-spaced
RECURSIVE TokenSeqsUpTo(_)
TokenSeqsUpTo(n) ==
    IF n = 0 THEN {<<>>}
    ELSE LET S == TokenSeqsUpTo(n - 1)
         IN  S \cup {Append(ts, <<c>>) : ts \in {u \in S : Len(u) = n - 1},
                                        c \in Alphabet \ {Space}}

TokenTextsUpTo(n) == {join(ts) : ts \in TokenSeqsUpTo(n)}

-----------------------------------------------------------------------------
(* Word-timing model: api/models.py WordData *)

NoIndex == -1     \* index: Optional[int] = None

WordData(w, s, e, conf, spk, spkconf, pw, idx) ==
    [word |-> w, start |-> s, end |-> e, confidence |-> conf, speaker |-> spk,
     speaker_confidence |-> spkconf, punctuated_word |-> pw, index |-> idx]

\* a word with its index field left out of the comparison
NoIdx(w) == [w EXCEPT !.index = NoIndex]
StripIdx(ws) == [i \in 1..Len(ws) |-> NoIdx(ws[i])]

RECURSIVE Concat(_)
Concat(ss) == IF ss = <<>> THEN <<>> ELSE Head(ss) \o Concat(Tail(ss))

\* Python slices words[:k] and words[k:] for k >= 0
SliceTo(ws, k) == SubSeq(ws, 1, IF k < Len(ws) THEN k ELSE Len(ws))
SliceFrom(ws, k) == SubSeq(ws, k + 1, Len(ws))

-----------------------------------------------------------------------------
(* Paragraph segmentation: TranscriptProcessor.extract_paragraphs *)

PauseThreshold == R(2, 1)       \* word.start - previous.end > 2.0
MaxParagraphWords == 100        \* len(current_paragraph_words) >= 100

ParagraphData(id, text, st, en, spk, ws) ==
    [id |-> id, text |-> text, start_time |-> st, end_time |-> en,
     speaker |-> spk, words |-> ws]

SpeakerCount(ws, spk) == Cardinality({i \in 1..Len(ws) : ws[i].speaker = spk})

\* max(speaker_counts, key=speaker_counts.get): the first speaker, in order of
\* first occurrence, whose count is the largest
PrimarySpeaker(ws) ==
    LET best == CHOOSE i \in 1..Len(ws) :
                   /\ \A j \in 1..Len(ws) :
                         SpeakerCount(ws, ws[j].speaker) <= SpeakerCount(ws, ws[i].speaker)
                   /\ \A j \in 1..(i - 1) :
                         SpeakerCount(ws, ws[j].speaker) < SpeakerCount(ws, ws[i].speaker)
    IN  ws[best].speaker

_create_paragraph_from_words(ws, paragraph_index, start_time) ==
    IF ws = <<>>
    THEN ParagraphData(paragraph_index, <<>>, start_time, start_time, 0, <<>>)
    ELSE ParagraphData(paragraph_index,
                       join([i \in 1..Len(ws) |-> ws[i].punctuated_word]),
                       start_time, ws[Len(ws)].end, PrimarySpeaker(ws), ws)

\* lines 174-175: the loop writes word.index on the alternative's own words
IndexedWords(ws) == [i \in 1..Len(ws) |-> [ws[i] EXCEPT !.index = i - 1]]

\* the loop's variables: paragraphs, current_paragraph_words, current_speaker
\* and paragraph_start_time
LoopState(ps, cur, current_speaker, paragraph_start_time) ==
    [ps |-> ps, cur |-> cur, current_speaker |-> current_speaker,
     paragraph_start_time |-> paragraph_start_time]

\* one pass of the loop body breaking on a pause of two seconds or more
FallbackStep_pause_inclusive(st, word) ==
    LET should_break ==
            \/ word.speaker # st.current_speaker /\ st.cur # <<>>
            \/ st.cur # <<>> /\ RLe(PauseThreshold, RSub(word.start, st.cur[Len(st.cur)].end))
            \/ Len(st.cur) >= MaxParagraphWords
    IN  IF should_break /\ st.cur # <<>>
        THEN LoopState(Append(st.ps, _create_paragraph_from_words(
                                         st.cur, Len(st.ps), st.paragraph_start_time)),
                       <<word>>, word.speaker, word.start)
        ELSE IF Len(st.cur) = 0
             THEN LoopState(st.ps, <<word>>, word.speaker, word.start)
             ELSE LoopState(st.ps, Append(st.cur, word),
                            st.current_speaker, st.paragraph_start_time)

\* one pass of the loop body, lines 173-210
FallbackStep(st, word) ==
    LET should_break ==
            \/ word.speaker # st.current_speaker /\ st.cur # <<>>
            \/ st.cur # <<>> /\ RLt(PauseThreshold, RSub(word.start, st.cur[Len(st.cur)].end))
            \/ Len(st.cur) >= MaxParagraphWords
    IN  IF should_break /\ st.cur # <<>>
        THEN LoopState(Append(st.ps, _create_paragraph_from_words(
                                         st.cur, Len(st.ps), st.paragraph_start_time)),
                       <<word>>, word.speaker, word.start)
        ELSE IF Len(st.cur) = 0
             THEN LoopState(st.ps, <<word>>, word.speaker, word.start)
             ELSE LoopState(st.ps, Append(st.cur, word),
                            st.current_speaker, st.paragraph_start_time)

\* the passes for words lo..hi in order, the range taken by halves (after a
\* pass current_paragraph_words is never empty)
RECURSIVE FallbackPasses(_, _, _, _)
FallbackPasses(ws, lo, hi, st) ==
    IF lo > hi THEN st
    ELSE IF lo = hi THEN FallbackStep(st, ws[lo])
    ELSE LET mid == (lo + hi) \div 2
             half == FallbackPasses(ws, lo, mid, st)
         IN  IF half.cur # <<>> THEN FallbackPasses(ws, mid + 1, hi, half) ELSE half

\* the loop of lines 173-210 from word k on and the final flush of lines
\* 212-219; cur is current_paragraph_words
FallbackLoop(ws, k, ps, cur, current_speaker, paragraph_start_time) ==
    LET st == FallbackPasses(ws, k, Len(ws),
                             LoopState(ps, cur, current_speaker, paragraph_start_time))
    IN  IF st.cur # <<>>
        THEN Append(st.ps, _create_paragraph_from_words(
                               st.cur, Len(st.ps), st.paragraph_start_time))
        ELSE st.ps

_create_paragraphs_from_words(alternative) ==
    IF alternative.words = <<>> THEN <<>>
    ELSE FallbackLoop(IndexedWords(alternative.words), 1, <<>>, <<>>,
                      alternative.words[1].speaker, alternative.words[1].start)

RECURSIVE MinStart(_, _)
MinStart(ws, acc) ==
    IF ws = <<>> THEN acc
    ELSE MinStart(Tail(ws), IF acc = <<>> THEN Head(ws).start ELSE RMin(acc, Head(ws).start))

RECURSIVE MaxEnd(_, _)
MaxEnd(ws, acc) == IF ws = <<>> THEN acc ELSE MaxEnd(Tail(ws), RMax(acc, Head(ws).end))

\* paragraph_text += sentence["text"] + " "
RECURSIVE SentenceTexts(_)
SentenceTexts(sentences) ==
    IF sentences = <<>> THEN <<>>
    ELSE Head(sentences).text \o <<Space>> \o SentenceTexts(Tail(sentences))

\* lines 66-149 from native paragraph k on; word_index is the running counter
RECURSIVE NativeLoop(_, _, _, _)
NativeLoop(native, k, word_index, ps) ==
    IF k > Len(native) THEN ps
    ELSE LET raw == Concat([s \in 1..Len(native[k].sentences) |->
                                native[k].sentences[s].words])
             paragraph_words ==
                 [i \in 1..Len(raw) |-> [raw[i] EXCEPT !.index = word_index + i - 1]]
             st == MinStart(paragraph_words, <<>>)
         IN  NativeLoop(native, k + 1, word_index + Len(raw),
                 Append(ps, ParagraphData(k - 1,
                                strip(SentenceTexts(native[k].sentences)),
                                IF st = <<>> THEN Zero ELSE st,
                                MaxEnd(paragraph_words, Zero),
                                IF paragraph_words = <<>> THEN 0
                                ELSE PrimarySpeaker(paragraph_words),
                                paragraph_words)))

_extract_from_paragraphs_structure(alternative) ==
    NativeLoop(alternative.paragraphs.list, 1, 0, <<>>)

\* alternative.paragraphs and "paragraphs" in alternative.paragraphs
UsesNative(alternative) == alternative.paragraphs.has

extract_paragraphs(response) ==
    IF UsesNative(response)
    THEN _extract_from_paragraphs_structure(response)
    ELSE _create_paragraphs_from_words(response)

\* the response object after extract_paragraphs has run on it: the fallback
\* path has written word.index on its words, the native path touches nothing
AfterExtract(response) ==
    IF UsesNative(response) THEN response
    ELSE [response EXCEPT !.words = IndexedWords(response.words)]

-----------------------------------------------------------------------------
(* Timing reconciliation: TranscriptProcessor.calculate_timing_adjustments *)

EditedConfidence == R(4, 5)     \* confidence=0.8, speaker_confidence=0.8
WordGap == R(1, 10)             \* current_time += word_duration + 0.1

\* the loop advancing the cursor by the word's duration only, without the gap
RECURSIVE AdjustLoop_no_gap(_, _, _, _, _, _)
AdjustLoop_no_gap(new_tokens, original_words, time_per_char, i, current_time, adjusted_words) ==
    IF i > Len(new_tokens) THEN adjusted_words
    ELSE LET token == new_tokens[i]
             matches == /\ i <= Len(original_words)
                        /\ lower(original_words[i].word) = lower(token)
         IN  IF matches
             THEN LET matching_word == original_words[i]
                  IN  AdjustLoop_no_gap(new_tokens, original_words, time_per_char, i + 1,
                          matching_word.end,
                          Append(adjusted_words,
                                 WordData(token, matching_word.start, matching_word.end,
                                          matching_word.confidence, matching_word.speaker,
                                          matching_word.speaker_confidence, token, i - 1)))
             ELSE LET word_duration == RMulInt(Len(token), time_per_char)
                  IN  AdjustLoop_no_gap(new_tokens, original_words, time_per_char, i + 1,
                          RAdd(current_time, word_duration),
                          Append(adjusted_words,
                                 WordData(token, current_time,
                                          RAdd(current_time, word_duration),
                                          EditedConfidence, original_words[1].speaker,
                                          EditedConfidence, token, i - 1)))


\* the loop of lines 364-399 from token i on (i counts from 1, index is i - 1)
RECURSIVE AdjustLoop(_, _, _, _, _, _)
AdjustLoop(new_tokens, original_words, time_per_char, i, current_time, adjusted_words) ==
    IF i > Len(new_tokens) THEN adjusted_words
    ELSE LET token == new_tokens[i]
             matches == /\ i <= Len(original_words)
                        /\ lower(original_words[i].word) = lower(token)
         IN  IF matches
             THEN LET matching_word == original_words[i]
                  IN  AdjustLoop(new_tokens, original_words, time_per_char, i + 1,
                          matching_word.end,
                          Append(adjusted_words,
                                 WordData(token, matching_word.start, matching_word.end,
                                          matching_word.confidence, matching_word.speaker,
                                          matching_word.speaker_confidence, token, i - 1)))
             ELSE LET word_duration == RMulInt(Len(token), time_per_char)
                  IN  AdjustLoop(new_tokens, original_words, time_per_char, i + 1,
                          RAdd(RAdd(current_time, word_duration), WordGap),
                          Append(adjusted_words,
                                 WordData(token, current_time,
                                          RAdd(current_time, word_duration),
                                          EditedConfidence, original_words[1].speaker,
                                          EditedConfidence, token, i - 1)))

\* the fast path comparing the texts as they are, without strip()
calculate_timing_adjustments_unstripped(original_text, new_text, original_words) ==
    IF original_words = <<>> THEN <<>>
    ELSE IF original_text = new_text THEN original_words
    ELSE LET total_duration ==
                 RSub(original_words[Len(original_words)].end, original_words[1].start)
             original_char_count == Len(original_text)
             time_per_char == IF original_char_count > 0
                              THEN RDivInt(total_duration, original_char_count)
                              ELSE Zero
         IN  AdjustLoop(split(new_text), original_words, time_per_char, 1,
                        original_words[1].start, <<>>)

calculate_timing_adjustments(original_text, new_text, original_words) ==
    IF original_words = <<>> THEN <<>>
    ELSE IF strip(original_text) = strip(new_text) THEN original_words
    ELSE LET total_duration ==
                 RSub(original_words[Len(original_words)].end, original_words[1].start)
             original_char_count == Len(original_text)
             time_per_char == IF original_char_count > 0
                              THEN RDivInt(total_duration, original_char_count)
                              ELSE Zero
         IN  AdjustLoop(split(new_text), original_words, time_per_char, 1,
                        original_words[1].start, <<>>)

-----------------------------------------------------------------------------
(* Response mutator: TranscriptProcessor._update_response_with_new_words *)

SeqMin(xs) == CHOOSE x \in {xs[i] : i \in 1..Len(xs)} : \A j \in 1..Len(xs) : x <= xs[j]
SeqMax(xs) == CHOOSE x \in {xs[i] : i \in 1..Len(xs)} : \A j \in 1..Len(xs) : x >= xs[j]

\* start_idx and end_idx of lines 433-434
SpanStart(target_paragraph) ==
    SeqMin([i \in 1..Len(target_paragraph.words) |-> target_paragraph.words[i].index])
SpanEnd(target_paragraph) ==
    SeqMax([i \in 1..Len(target_paragraph.words) |-> target_paragraph.words[i].index]) + 1

\* alternative.transcript = " ".join(word.punctuated_word for word in words)
Transcript(ws) == join([i \in 1..Len(ws) |-> ws[i].punctuated_word])

\* the tail taken from max(original_word_indices) instead of one past it
_update_response_with_new_words_off_by_one(response, target_paragraph, new_words, new_text) ==
    LET new_word_list ==
            IF target_paragraph.words # <<>>
            THEN IndexedWords(SliceTo(response.words, SpanStart(target_paragraph))
                              \o new_words
                              \o SliceFrom(response.words, SpanEnd(target_paragraph) - 1))
            ELSE response.words
    IN  [response EXCEPT !.words = new_word_list,
                         !.transcript = Transcript(new_word_list)]

\* the mutator splicing without reassigning the indices
_update_response_with_new_words_unindexed(response, target_paragraph, new_words, new_text) ==
    LET new_word_list ==
            IF target_paragraph.words # <<>>
            THEN SliceTo(response.words, SpanStart(target_paragraph))
                     \o new_words
                     \o SliceFrom(response.words, SpanEnd(target_paragraph))
            ELSE response.words
    IN  [response EXCEPT !.words = new_word_list,
                         !.transcript = Transcript(new_word_list)]

\* the mutator reassigning the indices whether or not the paragraph has words
_update_response_with_new_words_reindex_all(response, target_paragraph, new_words, new_text) ==
    LET new_word_list ==
            IF target_paragraph.words # <<>>
            THEN IndexedWords(SliceTo(response.words, SpanStart(target_paragraph))
                              \o new_words
                              \o SliceFrom(response.words, SpanEnd(target_paragraph)))
            ELSE IndexedWords(response.words)
    IN  [response EXCEPT !.words = new_word_list,
                         !.transcript = Transcript(new_word_list)]

_update_response_with_new_words(response, target_paragraph, new_words, new_text) ==
    LET new_word_list ==
            IF target_paragraph.words # <<>>
            THEN IndexedWords(SliceTo(response.words, SpanStart(target_paragraph))
                              \o new_words
                              \o SliceFrom(response.words, SpanEnd(target_paragraph)))
            ELSE response.words
    IN  [response EXCEPT !.words = new_word_list,
                         !.transcript = Transcript(new_word_list)]

\* the paragraph the loop of lines 304-308 finds, <<>> when there is none
FindParagraph(ps, paragraph_id) ==
    IF \E i \in 1..Len(ps) : ps[i].id = paragraph_id
    THEN <<ps[CHOOSE i \in 1..Len(ps) :
                 /\ ps[i].id = paragraph_id
                 /\ \A j \in 1..(i - 1) : ps[j].id # paragraph_id]>>
    ELSE <<>>

\* lines 350-352: the call returns the list object it was given
ReturnsOriginalWords(original_text, new_text, original_words) ==
    /\ original_words # <<>>
    /\ strip(original_text) = strip(new_text)

\* the positions of the returned response's words (from 1) that hold a word
\* object of the caller's response.  copy.deepcopy copies the words outside
\* the span; new_words is spliced in as it is, and it is the paragraph's own
\* list when the texts are equal; the fallback path's paragraphs hold the
\* caller's word objects, the native path's are built from the dicts.
SharedWords(response, target_paragraph, new_text) ==
    IF /\ ~UsesNative(response)
       /\ ReturnsOriginalWords(target_paragraph.text, new_text, target_paragraph.words)
    THEN {SpanStart(target_paragraph) + k : k \in 1..Len(target_paragraph.words)}
    ELSE {}

\* update_paragraph_text: the record of one call.  pre is the caller's
\* response before the call, arg the same object once extract_paragraphs has
\* run on it (what the mutator copies), result the returned response, shared
\* the positions of result.words that are word objects of the caller's.
update_paragraph_text(response, paragraph_id, new_text) ==
    LET found == FindParagraph(extract_paragraphs(response), paragraph_id)
        arg == AfterExtract(response)
    IN  IF found = <<>>
        THEN [status |-> "not_found", pre |-> response, arg |-> arg,
              paragraph_id |-> paragraph_id, new_text |-> new_text,
              target |-> <<>>, adjusted |-> <<>>, result |-> arg, shared |-> {}]
        ELSE LET target_paragraph == found[1]
                 adjusted_words == calculate_timing_adjustments(
                                       target_paragraph.text, new_text,
                                       target_paragraph.words)
             IN  [status |-> "ok", pre |-> response, arg |-> arg,
                  paragraph_id |-> paragraph_id, new_text |-> new_text,
                  target |-> found, adjusted |-> adjusted_words,
                  shared |-> SharedWords(response, target_paragraph, new_text),
                  result |-> _update_response_with_new_words(
                                 arg, target_paragraph, adjusted_words, new_text)]

-----------------------------------------------------------------------------
(* Documents a provider or a client can hand to the processor *)

Timelines == {"contiguous", "spaced", "dense"}
NativeShapes == {"none", "empty", "single", "per_word"}

ProviderConfidence == R(9, 10)
ProviderSpeakerConfidence == R(7, 10)

\* word i of a timeline: one second long back to back, one second long four
\* seconds apart, or fifty milliseconds long back to back
\* ("paused": one second long, the second word right after the first, every
\* later word exactly two seconds after the one before: 0-1, 1-2, 4-5, 7-8)
WordStart(timeline, i) ==
    IF timeline = "contiguous" THEN R(i - 1, 1)
    ELSE IF timeline = "spaced" THEN R(4 * (i - 1), 1)
    ELSE IF timeline = "paused" THEN R(IF i <= 2 THEN i - 1 ELSE 3 * i - 5, 1)
    ELSE R(i - 1, 20)

WordEnd(timeline, i) ==
    IF timeline = "contiguous" THEN R(i, 1)
    ELSE IF timeline = "spaced" THEN R(4 * (i - 1) + 1, 1)
    ELSE IF timeline = "paused" THEN R(IF i <= 2 THEN i ELSE 3 * i - 4, 1)
    ELSE R(i, 20)

\* the provider's words: "a" and "b" in turn, "b" punctuated as "B"
ProviderWord(timeline, i, spk) ==
    WordData(IF i % 2 = 1 THEN <<"a">> ELSE <<"b">>,
             WordStart(timeline, i), WordEnd(timeline, i),
             ProviderConfidence, spk, ProviderSpeakerConfidence,
             IF i % 2 = 1 THEN <<"a">> ELSE <<"B">>, NoIndex)

\* alternative.paragraphs: absent, {"paragraphs": []}, one paragraph with a
\* sentence per word, or one paragraph per word
NativeStructure(shape, ws) ==
    IF shape = "none" THEN [has |-> FALSE, list |-> <<>>]
    ELSE IF shape = "empty" THEN [has |-> TRUE, list |-> <<>>]
    ELSE IF shape = "single"
    THEN [has |-> TRUE,
          list |-> <<[sentences |-> [i \in 1..Len(ws) |->
                         [text |-> ws[i].punctuated_word, words |-> <<ws[i]>>]]]>>]
    ELSE [has |-> TRUE,
          list |-> [i \in 1..Len(ws) |->
                       [sentences |-> <<[text |-> ws[i].punctuated_word,
                                         words |-> <<ws[i]>>]>>]]]

Document(timeline, spk, shape) ==
    LET n == Len(spk)
        ws == [i \in 1..n |-> ProviderWord(timeline, i, spk[i])]
    IN  [words |-> ws, paragraphs |-> NativeStructure(shape, ws),
         transcript |-> Transcript(ws), duration |-> ws[n].end]

\* speaker 0 up to a change point, speaker 1 from it on (or no change)
SpeakerRuns(n) == {[i \in 1..n |-> IF i < k THEN 0 ELSE 1] : k \in 2..(n + 1)}

Documents(timelines) ==
    {Document(tl, spk, shape) :
        tl \in timelines,
        spk \in UNION {SpeakerRuns(n) : n \in 1..MaxWords},
        shape \in NativeShapes}

NoCall == [status |-> "none"]
Idle == [pc |-> "idle"]
NoQuery == [op |-> "none"]
NoDocument == [words |-> <<>>, paragraphs |-> [has |-> FALSE, list |-> <<>>],
               transcript |-> <<>>, duration |-> Zero]

\* the callers that use one DeepgramVersionManager directory at the same
\* time (threads or server processes); the manager takes no lock
Procs == {"p1", "p2"}
NoCalls == [p \in Procs |-> [op |-> "idle", pc |-> "done"]]

\* no concurrent request is in progress
CallsUnused ==
    /\ calls = NoCalls
    /\ started = 0
    /\ raced = FALSE

\* the job ids start_transcription hands out (uuid4: each one new)
JobIds == 1..MaxJobs

\* no coroutine of the job manager has anything to do
NoTasks ==
    [processor |-> <<>>,
     run |-> [job_id \in JobIds |-> "none"],
     sim |-> [job_id \in JobIds |-> [pc |-> "none", step |-> 0]]]

\* the job manager plays no part in the behaviours of the processor and the store
JobsUnused ==
    /\ active_jobs = <<>>
    /\ job_queue = <<>>
    /\ processing_jobs = {}
    /\ tasks = NoTasks
    /\ cancelled = {}

\* the version store plays no part in the behaviours of the processor
StoreUnused ==
    /\ files = <<>>
    /\ metaFile = [state |-> "missing", versions |-> <<>>, next_version |-> 0]
    /\ cache = {}
    /\ clock = 0
    /\ allocated = <<>>
    /\ faults = 0
    /\ ret = [op |-> "none"]
    /\ CallsUnused

-----------------------------------------------------------------------------
(* Editing a document: extract_paragraphs and update_paragraph_text *)

InitEdit ==
    /\ doc \in Documents({"contiguous", "spaced"})
    /\ paras = [done |-> FALSE, list |-> <<>>]
    /\ upd = NoCall
    /\ edits = 0
    /\ rc = Idle
    /\ qry = NoQuery
    /\ JobsUnused
    /\ StoreUnused

\* the caller segments the document it holds
ExtractParagraphs ==
    /\ rc = Idle
    /\ ~paras.done
    /\ paras' = [done |-> TRUE, list |-> extract_paragraphs(doc)]
    /\ doc' = AfterExtract(doc)
    /\ UNCHANGED <<upd, edits, rc, qry>>
    /\ UNCHANGED storeVars
    /\ UNCHANGED jobVars

\* the caller edits a paragraph and continues with the returned document
UpdateParagraphText(paragraph_id, new_text) ==
    /\ rc = Idle
    /\ edits < MaxEdits
    /\ upd' = update_paragraph_text(doc, paragraph_id, new_text)
    /\ doc' = upd'.result
    /\ paras' = [done |-> FALSE, list |-> <<>>]
    /\ edits' = edits + 1
    /\ UNCHANGED <<rc, qry>>
    /\ UNCHANGED storeVars
    /\ UNCHANGED jobVars

NextEdit ==
    \/ ExtractParagraphs
    \/ \E paragraph_id \in 0..Len(extract_paragraphs(doc)),
          new_text \in TokenTextsUpTo(MaxEditTokens) :
          UpdateParagraphText(paragraph_id, new_text)

SpecEdit == InitEdit /\ [][NextEdit]_vars

-----------------------------------------------------------------------------
(* One call of calculate_timing_adjustments on a segmented paragraph *)

InitReconcile ==
    /\ doc = NoDocument
    /\ paras = [done |-> FALSE, list |-> <<>>]
    /\ upd = NoCall
    /\ edits = 0
    /\ qry = NoQuery
    /\ JobsUnused
    /\ StoreUnused
    /\ \E d \in Documents(Timelines) :
          \E k \in 1..Len(extract_paragraphs(d)), t \in TextsUpTo(MaxTextLen) :
             rc = [pc |-> "call",
                   original_text |-> extract_paragraphs(d)[k].text,
                   new_text |-> t,
                   original_words |-> extract_paragraphs(d)[k].words,
                   out |-> <<>>]

Reconcile ==
    /\ rc.pc = "call"
    /\ rc' = [rc EXCEPT !.pc = "done",
                        !.out = calculate_timing_adjustments(
                                    rc.original_text, rc.new_text, rc.original_words)]
    /\ UNCHANGED <<doc, paras, upd, edits, qry>>
    /\ UNCHANGED storeVars
    /\ UNCHANGED jobVars

NextReconcile == Reconcile

SpecReconcile == InitReconcile /\ [][NextReconcile]_vars

-----------------------------------------------------------------------------
(* Properties of segmentation, reconciliation and splicing *)

NonDecreasingStart(ws) ==
    \A i \in 1..(Len(ws) - 1) : RLe(ws[i].start, ws[i + 1].start)

StartBeforeEnd(ws) == \A i \in 1..Len(ws) : RLe(ws[i].start, ws[i].end)

ParagraphWords(ps) == Concat([k \in 1..Len(ps) |-> ps[k].words])

\* C1: the paragraphs extract_paragraphs returns, concatenated in order, are
\* the document's flat word list: same length, same words in the same order,
\* carrying the indices 0..N-1 in sequence.
C1_PartitionInvariant ==
    paras.done =>
        /\ StripIdx(ParagraphWords(paras.list)) = StripIdx(doc.words)
        /\ \A k \in 1..Len(ParagraphWords(paras.list)) :
              ParagraphWords(paras.list)[k].index = k - 1

\* C2: for original words ordered by start with start <= end, the words
\* calculate_timing_adjustments returns have non-decreasing start.
C2_ReconcileMonotone ==
    (rc.pc = "done" /\ NonDecreasingStart(rc.original_words)
                    /\ StartBeforeEnd(rc.original_words))
        => NonDecreasingStart(rc.out)

\* C3: the flat word list of every document the caller holds, before and
\* after any update_paragraph_text, has non-decreasing start.
C3_DocumentMonotone == NonDecreasingStart(doc.words)

\* C4: every word of every document the caller holds has start <= end and
\* end <= metadata.duration.
C4_WithinDuration ==
    \A i \in 1..Len(doc.words) :
        /\ RLe(doc.words[i].start, doc.words[i].end)
        /\ RLe(doc.words[i].end, doc.duration)

\* C5: when the new text, trimmed, equals the original text, trimmed,
\* calculate_timing_adjustments returns the original words unchanged.
C5_NoOpIdempotence ==
    (rc.pc = "done" /\ strip(rc.new_text) = strip(rc.original_text))
        => rc.out = rc.original_words

\* the no-op path taken on a new text that differs from the original only in
\* surrounding whitespace, for a paragraph that is not the document's first
C5_Witness ==
    /\ rc.pc = "done"
    /\ strip(rc.new_text) = strip(rc.original_text)
    /\ rc.new_text # rc.original_text
    /\ rc.original_words # <<>>
    /\ rc.original_words[1].index > 0
    /\ rc.out = rc.original_words

\* C6: the mutator keeps every word outside the target paragraph's span
\* [min, max+1) in order and identical but for its index; a word before the
\* span stays at its position, a word after it moves by
\* (number of new words - span length), and index equals position.
C6_SpliceLocality ==
    (upd.status = "ok" /\ upd.target[1].words # <<>>) =>
        LET in == upd.arg.words
            out == upd.result.words
            s == SpanStart(upd.target[1])
            e == SpanEnd(upd.target[1])
            shift == Len(upd.adjusted) - (e - s)
        IN  /\ \A k \in 1..Len(in) :
                  k - 1 < s => /\ k <= Len(out)
                               /\ NoIdx(out[k]) = NoIdx(in[k])
                               /\ out[k].index = k - 1
            /\ \A k \in 1..Len(in) :
                  k - 1 >= e => /\ k + shift \in 1..Len(out)
                                /\ NoIdx(out[k + shift]) = NoIdx(in[k])
                                /\ out[k + shift].index = k + shift - 1
            /\ Len(out) = Cardinality({k \in 1..Len(in) : k - 1 < s \/ k - 1 >= e})
                          + Len(upd.adjusted)

\* an edit of a middle paragraph that changes the number of words
C6_Witness ==
    /\ upd.status = "ok"
    /\ upd.target[1].words # <<>>
    /\ SpanStart(upd.target[1]) > 0
    /\ SpanEnd(upd.target[1]) < Len(upd.arg.words)
    /\ Len(upd.adjusted) # SpanEnd(upd.target[1]) - SpanStart(upd.target[1])
    /\ NoIdx(upd.result.words[Len(upd.result.words)])
           = NoIdx(upd.arg.words[Len(upd.arg.words)])

-----------------------------------------------------------------------------
(* Version store: DeepgramVersionManager, one source key (audio_file) *)

VersionNumbers == 0..(MaxVersions - 1)

Responses == {"r1", "r2"}       \* documents a caller saves
Changes == {"edit"}             \* change descriptions a caller supplies
CacheChanges == "Original Deepgram response from cache"
None == "None"                  \* a response that is not there; a missing
                                \* filename is the empty tuple, a filename <<n>>

\* the file v{n}.json: not there, there but not parseable JSON, or the
\* version_data save_version dumps
Absent == [kind |-> "absent"]
Corrupt == [kind |-> "corrupt"]
VersionData(version_num, now, changes, response) ==
    [kind |-> "ok", version |-> version_num, timestamp |-> now,
     changes |-> changes, response |-> response]

Exists(file) == file.kind # "absent"      \* version_file.exists()
Parses(file) == file.kind = "ok"          \* json.load(f) and the keys read from it

\* the file metadata.json: not there, there but unreadable, or a metadata dict
MissingMetadata == [state |-> "missing", versions |-> <<>>, next_version |-> 0]
CorruptMetadata == [state |-> "corrupt", versions |-> <<>>, next_version |-> 0]

_load_metadata(metadata_file) ==
    IF metadata_file.state = "ok"
    THEN [versions |-> metadata_file.versions,
          next_version |-> metadata_file.next_version]
    ELSE [versions |-> <<>>, next_version |-> 0]

_save_metadata(metadata) ==
    [state |-> "ok", versions |-> metadata.versions,
     next_version |-> metadata.next_version]

\* the metadata save_version would write if it did not advance next_version
AppendVersion_stale(metadata, version_num, now, changes) ==
    [versions |-> Append(metadata.versions,
                         [version |-> version_num, filename |-> version_num,
                          timestamp |-> now, changes |-> changes]),
     next_version |-> version_num]

\* lines 173-179: the metadata save_version writes after the artifact
AppendVersion(metadata, version_num, now, changes) ==
    [versions |-> Append(metadata.versions,
                         [version |-> version_num, filename |-> version_num,
                          timestamp |-> now, changes |-> changes]),
     next_version |-> version_num + 1]

\* save_version without a fault: the version number, the files after the call
save_version(fs, metadata_file, response, changes, now) ==
    LET metadata == _load_metadata(metadata_file)
        version_num == metadata.next_version
    IN  [version |-> version_num,
         files |-> [fs EXCEPT ![version_num] =
                        VersionData(version_num, now, changes, response)],
         metaFile |-> _save_metadata(AppendVersion(metadata, version_num, now, changes))]

\* versions.sort(key=lambda v: v.version), a stable insertion sort
RECURSIVE InsertByVersion(_, _)
InsertByVersion(sorted, v) ==
    IF sorted = <<>> THEN <<v>>
    ELSE IF sorted[Len(sorted)].version <= v.version THEN Append(sorted, v)
    ELSE Append(InsertByVersion(SubSeq(sorted, 1, Len(sorted) - 1), v),
                sorted[Len(sorted)])

RECURSIVE SortByVersion(_, _)
SortByVersion(vs, acc) ==
    IF vs = <<>> THEN acc ELSE SortByVersion(Tail(vs), InsertByVersion(acc, Head(vs)))

\* the loop returning every metadata entry, whether or not its file loads
RECURSIVE LoadLoop_unchecked(_, _, _)
LoadLoop_unchecked(fs, infos, versions) ==
    IF infos = <<>> THEN versions
    ELSE LET version_info == Head(infos)
             file == fs[version_info.filename]
         IN  LoadLoop_unchecked(fs, Tail(infos),
                 Append(versions,
                        [version |-> version_info.version,
                         filename |-> version_info.filename,
                         timestamp |-> version_info.timestamp,
                         changes |-> version_info.changes,
                         response |-> IF Parses(file) THEN file.response ELSE None]))

\* the loop of lines 202-220 over metadata["versions"]
RECURSIVE LoadLoop(_, _, _)
LoadLoop(fs, infos, versions) ==
    IF infos = <<>> THEN versions
    ELSE LET version_info == Head(infos)
             file == fs[version_info.filename]
         IN  IF Exists(file) /\ Parses(file)
             THEN LoadLoop(fs, Tail(infos),
                      Append(versions,
                             [version |-> file.version,
                              filename |-> version_info.filename,
                              timestamp |-> file.timestamp,
                              changes |-> file.changes,
                              response |-> file.response]))
             ELSE LoadLoop(fs, Tail(infos), versions)

load_versions(fs, metadata_file) ==
    SortByVersion(LoadLoop(fs, _load_metadata(metadata_file).versions, <<>>), <<>>)

get_version(fs, version) ==
    IF ~Exists(fs[version]) THEN None
    ELSE IF Parses(fs[version]) THEN fs[version].response
    ELSE None

\* max(versions, key=lambda v: v.version): the first of the largest
get_latest_version(fs, metadata_file) ==
    LET versions == load_versions(fs, metadata_file)
    IN  IF versions = <<>> THEN None
        ELSE versions[CHOOSE i \in 1..Len(versions) :
                         /\ \A j \in 1..Len(versions) :
                               versions[j].version <= versions[i].version
                         /\ \A j \in 1..(i - 1) :
                               versions[j].version < versions[i].version].response

\* delete_version recomputing next_version from the versions that remain
RemoveVersion_recount(metadata, version) ==
    [versions |-> SelectSeq(metadata.versions, LAMBDA v : v.version # version),
     next_version |-> Len(SelectSeq(metadata.versions, LAMBDA v : v.version # version))]

\* delete_version dropping every entry up to the deleted version
RemoveVersion_upto(metadata, version) ==
    [versions |-> SelectSeq(metadata.versions, LAMBDA v : v.version > version),
     next_version |-> metadata.next_version]

\* lines 274-279: the metadata delete_version writes back
RemoveVersion(metadata, version) ==
    [versions |-> SelectSeq(metadata.versions, LAMBDA v : v.version # version),
     next_version |-> metadata.next_version]

\* legacy cache files, by what the scan of lines 321-357 finds in them
\* ("unusable": another audio file's, unreadable, or without a raw response)
CacheKinds == {"raw_response", "result", "unusable"}
HasRawResponse(cache_file) == cache_file \in {"raw_response", "result"}
RawResponse(cache_file) == IF cache_file = "raw_response" THEN "r0" ELSE "r0_result"

-----------------------------------------------------------------------------
(* Version store operations, one call at a time *)

InitStore ==
    /\ doc = NoDocument
    /\ paras = [done |-> FALSE, list |-> <<>>]
    /\ upd = NoCall
    /\ edits = 0
    /\ rc = Idle
    /\ qry = NoQuery
    /\ JobsUnused
    /\ files = [n \in VersionNumbers |-> Absent]
    /\ metaFile = MissingMetadata
    /\ cache \in SUBSET CacheKinds
    /\ clock = 0
    /\ allocated = <<>>
    /\ faults = 0
    /\ ret = [op |-> "none"]
    /\ CallsUnused

SaveVersion(response, changes) ==
    LET saved == save_version(files, metaFile, response, changes, clock)
    IN  /\ clock < MaxSaves
        /\ _load_metadata(metaFile).next_version \in VersionNumbers
        /\ files' = saved.files
        /\ metaFile' = saved.metaFile
        /\ clock' = clock + 1
        /\ allocated' = Append(allocated, saved.version)
        /\ ret' = [op |-> "save_version", raised |-> FALSE, result |-> <<saved.version>>]
        /\ UNCHANGED <<cache, faults>>
        /\ UNCHANGED editVars
        /\ UNCHANGED jobVars
        /\ UNCHANGED callVars

\* delete_version removing the file and leaving metadata.json as it is
DeleteVersion_file_only(version) ==
    /\ IF ~Exists(files[version])
       THEN /\ ret' = [op |-> "delete_version", arg |-> version, result |-> FALSE]
            /\ UNCHANGED <<files, metaFile>>
       ELSE /\ files' = [files EXCEPT ![version] = Absent]
            /\ UNCHANGED metaFile
            /\ ret' = [op |-> "delete_version", arg |-> version, result |-> TRUE]
    /\ UNCHANGED <<cache, clock, allocated, faults>>
    /\ UNCHANGED editVars
    /\ UNCHANGED jobVars
    /\ UNCHANGED callVars

DeleteVersion(version) ==
    /\ IF ~Exists(files[version])
       THEN /\ ret' = [op |-> "delete_version", arg |-> version, result |-> FALSE]
            /\ UNCHANGED <<files, metaFile>>
       ELSE /\ files' = [files EXCEPT ![version] = Absent]
            /\ metaFile' = _save_metadata(RemoveVersion(_load_metadata(metaFile), version))
            /\ ret' = [op |-> "delete_version", arg |-> version, result |-> TRUE]
    /\ UNCHANGED <<cache, clock, allocated, faults>>
    /\ UNCHANGED editVars
    /\ UNCHANGED jobVars
    /\ UNCHANGED callVars

LoadVersions ==
    /\ ret' = [op |-> "load_versions", result |-> load_versions(files, metaFile)]
    /\ UNCHANGED <<files, metaFile, cache, clock, allocated, faults>>
    /\ UNCHANGED editVars
    /\ UNCHANGED jobVars
    /\ UNCHANGED callVars

GetVersion(version) ==
    /\ ret' = [op |-> "get_version", arg |-> version,
               result |-> get_version(files, version)]
    /\ UNCHANGED <<files, metaFile, cache, clock, allocated, faults>>
    /\ UNCHANGED editVars
    /\ UNCHANGED jobVars
    /\ UNCHANGED callVars

GetLatestVersion ==
    /\ ret' = [op |-> "get_latest_version",
               result |-> get_latest_version(files, metaFile)]
    /\ UNCHANGED <<files, metaFile, cache, clock, allocated, faults>>
    /\ UNCHANGED editVars
    /\ UNCHANGED jobVars
    /\ UNCHANGED callVars

\* initialize_from_cache: glob order is the file system's, so any cache file
\* holding a raw response for this audio file may be the first one found
InitializeFromCache ==
    /\ IF get_version(files, 0) # None
       THEN /\ ret' = [op |-> "initialize_from_cache", result |-> <<>>,
                       imported |-> <<>>]
            /\ UNCHANGED <<files, metaFile, clock, allocated>>
       ELSE IF \A cache_file \in cache : ~HasRawResponse(cache_file)
       THEN /\ ret' = [op |-> "initialize_from_cache", result |-> <<>>,
                       imported |-> <<>>]
            /\ UNCHANGED <<files, metaFile, clock, allocated>>
       ELSE \E cache_file \in cache :
               LET saved == save_version(files, metaFile, RawResponse(cache_file),
                                         CacheChanges, clock)
               IN  /\ HasRawResponse(cache_file)
                   /\ clock < MaxSaves
                   /\ _load_metadata(metaFile).next_version \in VersionNumbers
                   /\ files' = saved.files
                   /\ metaFile' = saved.metaFile
                   /\ clock' = clock + 1
                   /\ allocated' = Append(allocated, saved.version)
                   /\ ret' = [op |-> "initialize_from_cache", result |-> <<saved.version>>,
                              imported |-> <<RawResponse(cache_file)>>]
    /\ UNCHANGED <<cache, faults>>
    /\ UNCHANGED editVars
    /\ UNCHANGED jobVars
    /\ UNCHANGED callVars

\* cleanup that takes every version file for an orphan
CleanupOrphanedFiles_all ==
    LET orphans == {n \in VersionNumbers : Exists(files[n])}
    IN  /\ files' = [n \in VersionNumbers |-> IF n \in orphans THEN Absent ELSE files[n]]
        /\ ret' = [op |-> "cleanup_orphaned_files", result |-> Cardinality(orphans)]
        /\ UNCHANGED <<metaFile, cache, clock, allocated, faults>>
        /\ UNCHANGED editVars
        /\ UNCHANGED jobVars
        /\ UNCHANGED callVars

CleanupOrphanedFiles ==
    LET valid_files == {_load_metadata(metaFile).versions[i].filename :
                           i \in 1..Len(_load_metadata(metaFile).versions)}
        orphans == {n \in VersionNumbers : Exists(files[n]) /\ n \notin valid_files}
    IN  /\ files' = [n \in VersionNumbers |-> IF n \in orphans THEN Absent ELSE files[n]]
        /\ ret' = [op |-> "cleanup_orphaned_files", result |-> Cardinality(orphans)]
        /\ UNCHANGED <<metaFile, cache, clock, allocated, faults>>
        /\ UNCHANGED editVars
        /\ UNCHANGED jobVars
        /\ UNCHANGED callVars

NextStore ==
    \/ \E response \in Responses, changes \in Changes : SaveVersion(response, changes)
    \/ \E version \in VersionNumbers : DeleteVersion(version)
    \/ LoadVersions
    \/ \E version \in VersionNumbers : GetVersion(version)
    \/ GetLatestVersion
    \/ InitializeFromCache
    \/ CleanupOrphanedFiles

SpecStore == InitStore /\ [][NextStore]_vars

-----------------------------------------------------------------------------
(* Version store with I/O faults *)

\* save_version committing the metadata although the artifact write raised
SaveVersionArtifactFails_commits(response, changes, truncated) ==
    LET saved == save_version(files, metaFile, response, changes, clock)
    IN  /\ faults < MaxFaults
        /\ saved.version \in VersionNumbers
        /\ files' = IF truncated THEN [files EXCEPT ![saved.version] = Corrupt] ELSE files
        /\ metaFile' = saved.metaFile
        /\ faults' = faults + 1
        /\ ret' = [op |-> "save_version", raised |-> TRUE, result |-> <<>>]
        /\ UNCHANGED <<cache, clock, allocated>>
        /\ UNCHANGED editVars
        /\ UNCHANGED jobVars
        /\ UNCHANGED callVars

\* save_version whose artifact write raises (open fails: the file is as it
\* was; the dump fails midway: the file is left truncated); the except clause
\* re-raises and the metadata is never written
SaveVersionArtifactFails(response, changes, truncated) ==
    LET version_num == _load_metadata(metaFile).next_version
    IN  /\ faults < MaxFaults
        /\ version_num \in VersionNumbers
        /\ files' = IF truncated THEN [files EXCEPT ![version_num] = Corrupt] ELSE files
        /\ faults' = faults + 1
        /\ ret' = [op |-> "save_version", raised |-> TRUE, result |-> <<>>]
        /\ UNCHANGED <<metaFile, cache, clock, allocated>>
        /\ UNCHANGED editVars
        /\ UNCHANGED jobVars
        /\ UNCHANGED callVars

\* save_version whose artifact is written and whose _save_metadata raises
\* (open fails: metadata.json is as it was; the dump fails midway: it is left
\* truncated)
SaveVersionMetadataFails(response, changes, truncated) ==
    LET saved == save_version(files, metaFile, response, changes, clock)
    IN  /\ faults < MaxFaults
        /\ clock < MaxSaves
        /\ saved.version \in VersionNumbers
        /\ files' = saved.files
        /\ metaFile' = IF truncated THEN CorruptMetadata ELSE metaFile
        /\ clock' = clock + 1
        /\ allocated' = Append(allocated, saved.version)
        /\ faults' = faults + 1
        /\ ret' = [op |-> "save_version", raised |-> TRUE, result |-> <<>>]
        /\ UNCHANGED cache
        /\ UNCHANGED editVars
        /\ UNCHANGED jobVars
        /\ UNCHANGED callVars

\* metadata.json removed or damaged from outside the program
MetadataFault(damaged) ==
    /\ faults < MaxFaults
    /\ metaFile.state = "ok"
    /\ metaFile' = IF damaged THEN CorruptMetadata ELSE MissingMetadata
    /\ faults' = faults + 1
    /\ ret' = [op |-> "fault"]
    /\ UNCHANGED <<files, cache, clock, allocated>>
    /\ UNCHANGED editVars
    /\ UNCHANGED jobVars
    /\ UNCHANGED callVars

\* a version file removed or damaged from outside the program
ArtifactFault(version, damaged) ==
    /\ faults < MaxFaults
    /\ Parses(files[version])
    /\ files' = [files EXCEPT ![version] = IF damaged THEN Corrupt ELSE Absent]
    /\ faults' = faults + 1
    /\ ret' = [op |-> "fault"]
    /\ UNCHANGED <<metaFile, cache, clock, allocated>>
    /\ UNCHANGED editVars
    /\ UNCHANGED jobVars
    /\ UNCHANGED callVars

NextStoreFaults ==
    \/ NextStore
    \/ \E response \in Responses, changes \in Changes, truncated \in BOOLEAN :
          SaveVersionArtifactFails(response, changes, truncated)
    \/ \E response \in Responses, changes \in Changes, truncated \in BOOLEAN :
          SaveVersionMetadataFails(response, changes, truncated)
    \/ \E damaged \in BOOLEAN : MetadataFault(damaged)
    \/ \E version \in VersionNumbers, damaged \in BOOLEAN : ArtifactFault(version, damaged)

SpecStoreFaults == InitStore /\ [][NextStoreFaults]_vars

-----------------------------------------------------------------------------
(* Properties of the version store *)

\* the version numbers a metadata file lists
Listed(metadata_file) ==
    {_load_metadata(metadata_file).versions[i].version :
        i \in 1..Len(_load_metadata(metadata_file).versions)}

\* the numbers of a set in ascending order
RECURSIVE Ascending(_)
Ascending(S) ==
    IF S = {} THEN <<>>
    ELSE LET m == CHOOSE x \in S : \A y \in S : x <= y
         IN  <<m>> \o Ascending(S \ {m})

VersionsOf(loaded) == [i \in 1..Len(loaded) |-> loaded[i].version]

\* C7: every save_version is allocated a number strictly greater than every
\* number allocated before it, the first being 0; a number freed by
\* delete_version is never allocated again.
C7_VersionMonotonicity ==
    /\ allocated # <<>> => allocated[1] = 0
    /\ \A i \in 1..Len(allocated) : \A j \in 1..(i - 1) : allocated[j] < allocated[i]

\* a save that follows the deletion of an earlier version
C7_Witness ==
    /\ ret.op = "save_version"
    /\ Len(allocated) >= 3
    /\ \E i \in 1..(Len(allocated) - 1) :
          /\ ~Exists(files[allocated[i]])
          /\ allocated[i] \notin Listed(metaFile)
    /\ Parses(files[allocated[Len(allocated)]])

\* C8: a save_version or initialize_from_cache call never writes to the file
\* of a version that has been written; the file changes only by deletion.
C8_ArtifactsImmutable ==
    [][ret'.op \in {"save_version", "initialize_from_cache"}
          => \A n \in VersionNumbers : Parses(files[n]) => files'[n] = files[n]]_vars

\* C9: initialize_from_cache changes nothing when version 0 exists; otherwise
\* it stores the matching cache file's raw response as version 0 with the
\* fixed changes description, or changes nothing and reports not-found.
C9_ImportIsVersionZero ==
    [][ret'.op = "initialize_from_cache" =>
          IF get_version(files, 0) # None
          THEN files' = files /\ metaFile' = metaFile /\ ret'.result = <<>>
          ELSE IF \A cache_file \in cache : ~HasRawResponse(cache_file)
          THEN files' = files /\ metaFile' = metaFile /\ ret'.result = <<>>
          ELSE /\ ret'.result = <<0>>
               /\ Parses(files'[0])
               /\ <<files'[0].response>> = ret'.imported
               /\ files'[0].changes = CacheChanges]_vars

\* C10 as stated: load_versions returns exactly the versions whose artifact
\* file exists and parses, in ascending order.
C10_LoadsEveryArtifact ==
    ret.op = "load_versions" =>
        VersionsOf(ret.result) = Ascending({n \in VersionNumbers : Parses(files[n])})

\* C10, amended: load_versions returns exactly the versions listed in
\* metadata whose artifact file exists and parses, each with the artifact's
\* document, in ascending order, and changes neither disk nor metadata;
\* get_latest_version returns the document of the highest of them, or None.
C10_LoadsListedArtifacts ==
    [][LET loadable == {n \in Listed(metaFile) : Parses(files[n])}
       IN  /\ ret'.op = "load_versions" =>
                 /\ VersionsOf(ret'.result) = Ascending(loadable)
                 /\ \A i \in 1..Len(ret'.result) :
                       ret'.result[i].response = files[ret'.result[i].version].response
                 /\ files' = files /\ metaFile' = metaFile
           /\ ret'.op = "get_latest_version" =>
                 /\ ret'.result = IF loadable = {} THEN None
                                  ELSE files[CHOOSE n \in loadable :
                                                \A m \in loadable : m <= n].response
                 /\ files' = files /\ metaFile' = metaFile]_vars

\* load_versions skipping a listed version whose file is gone or damaged
\* while returning another
C10_Witness ==
    /\ ret.op = "load_versions"
    /\ ret.result # <<>>
    /\ \E n \in Listed(metaFile) : ~Parses(files[n])
    /\ \E n \in Listed(metaFile) : Parses(files[n])

\* C11: delete_version(n) on an existing artifact removes the file and the
\* metadata entry of n, leaves every other file, every other entry and
\* next_version as they were, and returns True; on a missing artifact it
\* returns False and changes neither the files nor the metadata.
C11_DeleteContract ==
    [][ret'.op = "delete_version" =>
          LET n == ret'.arg
              before == _load_metadata(metaFile)
              after == _load_metadata(metaFile')
          IN  IF Exists(files[n])
              THEN /\ ret'.result = TRUE
                   /\ ~Exists(files'[n])
                   /\ n \notin Listed(metaFile')
                   /\ \A m \in VersionNumbers \ {n} : files'[m] = files[m]
                   /\ after.versions = SelectSeq(before.versions, LAMBDA v : v.version # n)
                   /\ after.next_version = before.next_version
              ELSE /\ ret'.result = FALSE
                   /\ files' = files
                   /\ metaFile' = metaFile]_vars

\* a successful delete_version of a listed version below another version
\* that is still listed and on disk
C11_Witness ==
    /\ ret.op = "delete_version"
    /\ ret.result = TRUE
    /\ ret.arg \in {allocated[i] : i \in 1..Len(allocated)}
    /\ \E m \in Listed(metaFile) : m < ret.arg /\ Parses(files[m])
    /\ \E m \in Listed(metaFile) : m > ret.arg /\ Parses(files[m])

-----------------------------------------------------------------------------
(* Properties of update_paragraph_text as a call *)

\* C12: when the paragraph id is not among the paragraphs segmented from the
\* document, update_paragraph_text raises "not found", returns no document,
\* and the caller's document is in every field, the words' index included,
\* what it was before the call.
C12_NotFoundNoMutation ==
    upd.status = "not_found" =>
        /\ upd.target = <<>>
        /\ upd.arg = upd.pre

-----------------------------------------------------------------------------
(* Properties of the version store under I/O faults *)

\* C13: a save_version whose artifact write fails ends in an error and leaves
\* the persisted metadata (versions list and next_version) exactly as it was;
\* the failed call consumes no version number.
C13_FailedWriteKeepsMetadata ==
    [][LET version_num == _load_metadata(metaFile).next_version
       IN  (/\ ret'.op = "save_version"
            /\ version_num \in VersionNumbers
            /\ files'[version_num] \in {files[version_num], Corrupt})
           => /\ ret'.raised
              /\ ret'.result = <<>>
              /\ metaFile' = metaFile
              /\ allocated' = allocated
              /\ _load_metadata(metaFile').next_version = version_num]_vars

\* a save_version that failed while dumping the artifact of a version after
\* the first: the truncated file is on disk and the metadata does not list it
C13_Witness ==
    /\ ret.op = "save_version"
    /\ ret.raised
    /\ metaFile.state = "ok"
    /\ metaFile.next_version > 0
    /\ files[metaFile.next_version] = Corrupt
    /\ metaFile.next_version \notin Listed(metaFile)

\* C14: update_paragraph_text treats its input as immutable: after a call
\* that returns, the caller's document is field for field what it was before
\* the call, and the returned document holds none of the caller's word
\* objects.
C14_InputImmutable ==
    upd.status = "ok" =>
        /\ upd.arg = upd.pre
        /\ upd.shared = {}

-----------------------------------------------------------------------------
(* Version store under concurrent requests: every call is a sequence of     *)
(* file system steps, and the steps of two calls interleave freely          *)

\* the classes an exception is an instance of (IOError is OSError)
ExceptionBases(exc) ==
    IF exc = "FileNotFoundError" THEN {"FileNotFoundError", "OSError", "IOError"}
    ELSE IF exc = "JSONDecodeError" THEN {"JSONDecodeError", "ValueError"}
    ELSE IF exc = "KeyError" THEN {"KeyError", "LookupError"}
    ELSE {exc}

\* an except clause naming only the decoding and key errors
Caught_decode_only(exc, classes) ==
    ExceptionBases(exc) \cap (classes \ {"IOError", "OSError"}) # {}

\* except (classes): the clause handles the exception
Caught(exc, classes) == ExceptionBases(exc) \cap classes # {}

LoadVersionsCatches == {"JSONDecodeError", "IOError", "KeyError"}
GetVersionCatches == {"JSONDecodeError", "IOError", "KeyError"}
DeleteVersionCatches == {"IOError", "OSError"}

\* open(version_file, 'r') and json.load(f) on the file as it is now
ReadVersionFile(file) ==
    IF ~Exists(file) THEN [exc |-> "FileNotFoundError", data |-> file]
    ELSE IF ~Parses(file) THEN [exc |-> "JSONDecodeError", data |-> file]
    ELSE [exc |-> "", data |-> file]

CanBegin(p) ==
    /\ started < MaxCalls
    /\ calls[p].pc = "done"

Writing(p) ==
    /\ calls[p].op \in {"save_version", "delete_version"}
    /\ calls[p].pc # "done"

Scanning(p) == calls[p].op = "load_versions" /\ calls[p].pc # "done"

\* history: a file that appears on disk is on disk during every scan in progress
Observe(cs, file) ==
    [q \in Procs |-> IF cs[q].op = "load_versions" /\ cs[q].pc # "done"
                     THEN [cs[q] EXCEPT !.present = @ \cup {file}]
                     ELSE cs[q]]

\* a store some calls have already been made on, one after the other
InitConcurrent ==
    /\ doc = NoDocument
    /\ paras = [done |-> FALSE, list |-> <<>>]
    /\ upd = NoCall
    /\ edits = 0
    /\ rc = Idle
    /\ qry = NoQuery
    /\ JobsUnused
    /\ cache = {}
    /\ faults = 0
    /\ ret = [op |-> "none"]
    /\ CallsUnused
    /\ \E k \in 0..(MaxVersions - 1) :
          /\ files = [n \in VersionNumbers |->
                         IF n < k THEN VersionData(n, n, "edit", "r1") ELSE Absent]
          /\ metaFile = IF k = 0 THEN MissingMetadata
                        ELSE [state |-> "ok",
                              versions |-> [i \in 1..k |->
                                              [version |-> i - 1, filename |-> i - 1,
                                               timestamp |-> i - 1, changes |-> "edit"]],
                              next_version |-> k]
          /\ clock = k
          /\ allocated = [i \in 1..k |-> i - 1]

\* save_version, lines 149-165: metadata loaded, number and timestamp taken
SaveBegin(p, response, changes) ==
    LET metadata == _load_metadata(metaFile)
    IN  /\ CanBegin(p)
        /\ metadata.next_version \in VersionNumbers
        /\ calls' = [calls EXCEPT ![p] =
                        [op |-> "save_version", pc |-> "open_artifact",
                         response |-> response, changes |-> changes,
                         metadata |-> metadata, version_num |-> metadata.next_version,
                         timestamp |-> clock]]
        /\ started' = started + 1
        /\ raced' = (raced \/ \E q \in Procs \ {p} : Writing(q))
        /\ clock' = clock + 1
        /\ allocated' = Append(allocated, metadata.next_version)
        /\ UNCHANGED <<files, metaFile, cache, faults, ret>>
        /\ UNCHANGED editVars
        /\ UNCHANGED jobVars

\* line 169: open(version_file, 'w') leaves an empty file
SaveOpenArtifact(p) ==
    /\ calls[p].op = "save_version" /\ calls[p].pc = "open_artifact"
    /\ files' = [files EXCEPT ![calls[p].version_num] = Corrupt]
    /\ calls' = [calls EXCEPT ![p].pc = "dump_artifact"]
    /\ UNCHANGED <<metaFile, cache, clock, allocated, faults, ret, started, raced>>
    /\ UNCHANGED editVars
    /\ UNCHANGED jobVars

\* line 170: json.dump(version_data, f)
SaveDumpArtifact(p) ==
    LET c == calls[p]
        version_data == VersionData(c.version_num, c.timestamp, c.changes, c.response)
    IN  /\ c.op = "save_version" /\ c.pc = "dump_artifact"
        /\ files' = [files EXCEPT ![c.version_num] = version_data]
        /\ calls' = Observe([calls EXCEPT ![p].pc = "open_metadata"], version_data)
        /\ UNCHANGED <<metaFile, cache, clock, allocated, faults, ret, started, raced>>
        /\ UNCHANGED editVars
        /\ UNCHANGED jobVars

\* _save_metadata, line 117: open(metadata_file, 'w') leaves an empty file
SaveOpenMetadata(p) ==
    /\ calls[p].op = "save_version" /\ calls[p].pc = "open_metadata"
    /\ metaFile' = CorruptMetadata
    /\ calls' = [calls EXCEPT ![p].pc = "dump_metadata"]
    /\ UNCHANGED <<files, cache, clock, allocated, faults, ret, started, raced>>
    /\ UNCHANGED editVars
    /\ UNCHANGED jobVars

\* lines 173-184: the entry appended to the metadata loaded at the start,
\* the metadata dumped, the filename returned
SaveDumpMetadata(p) ==
    LET c == calls[p]
    IN  /\ c.op = "save_version" /\ c.pc = "dump_metadata"
        /\ metaFile' = _save_metadata(AppendVersion(c.metadata, c.version_num,
                                                    c.timestamp, c.changes))
        /\ calls' = [calls EXCEPT ![p] =
                        [op |-> "save_version", pc |-> "done", raised |-> FALSE,
                         version_num |-> c.version_num, timestamp |-> c.timestamp]]
        /\ UNCHANGED <<files, cache, clock, allocated, faults, ret, started, raced>>
        /\ UNCHANGED editVars
        /\ UNCHANGED jobVars

\* delete_version, lines 264-267: the existence check
DeleteBegin(p, version) ==
    /\ CanBegin(p)
    /\ calls' = [calls EXCEPT ![p] =
                    IF Exists(files[version])
                    THEN [op |-> "delete_version", pc |-> "unlink", version |-> version]
                    ELSE [op |-> "delete_version", pc |-> "done", raised |-> FALSE,
                          version |-> version, result |-> FALSE]]
    /\ started' = started + 1
    /\ raced' = (raced \/ (Exists(files[version]) /\ \E q \in Procs \ {p} : Writing(q)))
    /\ UNCHANGED <<files, metaFile, cache, clock, allocated, faults, ret>>
    /\ UNCHANGED editVars
    /\ UNCHANGED jobVars

\* line 271: version_file.unlink(); a file that is gone raises
\* FileNotFoundError, which line 283 handles by returning False
DeleteUnlink(p) ==
    LET c == calls[p]
    IN  /\ c.op = "delete_version" /\ c.pc = "unlink"
        /\ IF Exists(files[c.version])
           THEN /\ files' = [files EXCEPT ![c.version] = Absent]
                /\ calls' = [calls EXCEPT ![p].pc = "load_metadata"]
           ELSE /\ files' = files
                /\ calls' = [calls EXCEPT ![p] =
                                [op |-> "delete_version", pc |-> "done",
                                 raised |-> ~Caught("FileNotFoundError", DeleteVersionCatches),
                                 version |-> c.version, result |-> FALSE]]
        /\ UNCHANGED <<metaFile, cache, clock, allocated, faults, ret, started, raced>>
        /\ UNCHANGED editVars
        /\ UNCHANGED jobVars

\* lines 274-278: the metadata loaded and filtered
DeleteLoadMetadata(p) ==
    LET c == calls[p]
    IN  /\ c.op = "delete_version" /\ c.pc = "load_metadata"
        /\ calls' = [calls EXCEPT ![p] =
                        [op |-> "delete_version", pc |-> "open_metadata",
                         version |-> c.version,
                         metadata |-> RemoveVersion(_load_metadata(metaFile), c.version)]]
        /\ UNCHANGED <<files, metaFile, cache, clock, allocated, faults, ret, started, raced>>
        /\ UNCHANGED editVars
        /\ UNCHANGED jobVars

DeleteOpenMetadata(p) ==
    /\ calls[p].op = "delete_version" /\ calls[p].pc = "open_metadata"
    /\ metaFile' = CorruptMetadata
    /\ calls' = [calls EXCEPT ![p].pc = "dump_metadata"]
    /\ UNCHANGED <<files, cache, clock, allocated, faults, ret, started, raced>>
    /\ UNCHANGED editVars
    /\ UNCHANGED jobVars

\* lines 279-281: the filtered metadata dumped, True returned
DeleteDumpMetadata(p) ==
    LET c == calls[p]
    IN  /\ c.op = "delete_version" /\ c.pc = "dump_metadata"
        /\ metaFile' = _save_metadata(c.metadata)
        /\ calls' = [calls EXCEPT ![p] =
                        [op |-> "delete_version", pc |-> "done", raised |-> FALSE,
                         version |-> c.version, result |-> TRUE]]
        /\ UNCHANGED <<files, cache, clock, allocated, faults, ret, started, raced>>
        /\ UNCHANGED editVars
        /\ UNCHANGED jobVars

\* load_versions returns: versions.sort(key=...) on what the scan collected
\* (present and skipped are history: the files on disk at some point of the
\* scan, the entries whose read raised an exception the scan handled)
LoadReturn(c, versions) ==
    [op |-> "load_versions", pc |-> "done", raised |-> FALSE,
     result |-> SortByVersion(versions, <<>>), present |-> c.present,
     skipped |-> c.skipped]

\* load_versions, lines 199-200: the metadata loaded, the scan begins
LoadBegin(p) ==
    LET infos == _load_metadata(metaFile).versions
        c == [op |-> "load_versions", pc |-> "exists", infos |-> infos,
              versions |-> <<>>, skipped |-> 0,
              present |-> {files[n] : n \in {m \in VersionNumbers : Parses(files[m])}}]
    IN  /\ CanBegin(p)
        /\ calls' = [calls EXCEPT ![p] = IF infos = <<>> THEN LoadReturn(c, <<>>) ELSE c]
        /\ started' = started + 1
        /\ UNCHANGED <<files, metaFile, cache, clock, allocated, faults, ret, raced>>
        /\ UNCHANGED editVars
        /\ UNCHANGED jobVars

\* line 206: version_file.exists() for the next metadata entry
LoadExists(p) ==
    LET c == calls[p]
        rest == Tail(c.infos)
    IN  /\ c.op = "load_versions" /\ c.pc = "exists"
        /\ calls' = [calls EXCEPT ![p] =
                        IF Exists(files[Head(c.infos).filename])
                        THEN [c EXCEPT !.pc = "read"]
                        ELSE IF rest = <<>> THEN LoadReturn(c, c.versions)
                        ELSE [c EXCEPT !.infos = rest]]
        /\ UNCHANGED <<files, metaFile, cache, clock, allocated, faults, ret, started, raced>>
        /\ UNCHANGED editVars
        /\ UNCHANGED jobVars

\* lines 207-218: the file opened and parsed, the version appended; an
\* exception the except clause names skips the entry, any other ends the call
LoadRead(p) ==
    LET c == calls[p]
        version_info == Head(c.infos)
        rest == Tail(c.infos)
        read == ReadVersionFile(files[version_info.filename])
        versions == IF read.exc = ""
                    THEN Append(c.versions,
                                [version |-> read.data.version,
                                 filename |-> version_info.filename,
                                 timestamp |-> read.data.timestamp,
                                 changes |-> read.data.changes,
                                 response |-> read.data.response])
                    ELSE c.versions
        after == [c EXCEPT !.skipped = IF read.exc = "" THEN @ ELSE @ + 1]
    IN  /\ c.op = "load_versions" /\ c.pc = "read"
        /\ calls' = [calls EXCEPT ![p] =
                        IF read.exc # "" /\ ~Caught(read.exc, LoadVersionsCatches)
                        THEN [op |-> "load_versions", pc |-> "done", raised |-> TRUE,
                              result |-> <<>>, present |-> c.present,
                              skipped |-> c.skipped]
                        ELSE IF rest = <<>> THEN LoadReturn(after, versions)
                        ELSE [after EXCEPT !.pc = "exists", !.infos = rest,
                                           !.versions = versions]]
        /\ UNCHANGED <<files, metaFile, cache, clock, allocated, faults, ret, started, raced>>
        /\ UNCHANGED editVars
        /\ UNCHANGED jobVars

\* get_version, lines 237-240: the existence check
GetBegin(p, version) ==
    /\ CanBegin(p)
    /\ calls' = [calls EXCEPT ![p] =
                    IF Exists(files[version])
                    THEN [op |-> "get_version", pc |-> "read", version |-> version]
                    ELSE [op |-> "get_version", pc |-> "done", raised |-> FALSE,
                          version |-> version, result |-> None, vanished |-> FALSE]]
    /\ started' = started + 1
    /\ UNCHANGED <<files, metaFile, cache, clock, allocated, faults, ret, raced>>
    /\ UNCHANGED editVars
    /\ UNCHANGED jobVars

\* lines 242-251: the file opened and parsed, the response returned
GetRead(p) ==
    LET c == calls[p]
        read == ReadVersionFile(files[c.version])
    IN  /\ c.op = "get_version" /\ c.pc = "read"
        /\ calls' = [calls EXCEPT ![p] =
                        [op |-> "get_version", pc |-> "done",
                         raised |-> (read.exc # "" /\ ~Caught(read.exc, GetVersionCatches)),
                         version |-> c.version,
                         result |-> IF read.exc = "" THEN read.data.response ELSE None,
                         vanished |-> (read.exc = "FileNotFoundError")]]
        /\ UNCHANGED <<files, metaFile, cache, clock, allocated, faults, ret, started, raced>>
        /\ UNCHANGED editVars
        /\ UNCHANGED jobVars

NextConcurrent ==
    \E p \in Procs :
        \/ \E response \in Responses, changes \in Changes : SaveBegin(p, response, changes)
        \/ SaveOpenArtifact(p)
        \/ SaveDumpArtifact(p)
        \/ SaveOpenMetadata(p)
        \/ SaveDumpMetadata(p)
        \/ \E version \in VersionNumbers : DeleteBegin(p, version)
        \/ DeleteUnlink(p)
        \/ DeleteLoadMetadata(p)
        \/ DeleteOpenMetadata(p)
        \/ DeleteDumpMetadata(p)
        \/ LoadBegin(p)
        \/ LoadExists(p)
        \/ LoadRead(p)
        \/ \E version \in VersionNumbers : GetBegin(p, version)
        \/ GetRead(p)

SpecConcurrent == InitConcurrent /\ [][NextConcurrent]_vars

-----------------------------------------------------------------------------
(* Properties of the version store under concurrent requests *)

\* C15: with no lock, two save_version calls whose steps interleave can both
\* be allocated the same number, one artifact replacing the other and the
\* metadata keeping one entry (C15_LostUpdate is reachable); when no writing
\* call overlaps another, no number is allocated twice.
C15_SerializedSavesDistinct ==
    ~raced => \A i \in 1..Len(allocated) : \A j \in 1..(i - 1) :
                  allocated[j] < allocated[i]

\* both requests have returned from save_version with the same version
\* number; the file holds one writer's document and the metadata one entry
C15_LostUpdate ==
    \E p \in Procs : \E q \in Procs \ {p} :
        /\ calls[p].op = "save_version" /\ calls[p].pc = "done"
        /\ calls[q].op = "save_version" /\ calls[q].pc = "done"
        /\ calls[p].version_num = calls[q].version_num
        /\ calls[p].timestamp # calls[q].timestamp
        /\ Parses(files[calls[p].version_num])
        /\ files[calls[p].version_num].timestamp = calls[p].timestamp
        /\ metaFile.state = "ok"
        /\ Len(SelectSeq(metaFile.versions,
                         LAMBDA v : v.version = calls[p].version_num)) = 1
        /\ Len(metaFile.versions) < Len(allocated)

\* C16: load_versions and get_version running while other requests read,
\* save and delete never end in an error; a version file that disappears
\* between the existence check and the read is skipped by load_versions and
\* reported as None by get_version; every version load_versions returns was
\* on disk at some point of its scan.
C16_ReadsTolerateWriters ==
    \A p \in Procs :
        /\ (calls[p].op = "load_versions" /\ calls[p].pc = "done") =>
              /\ ~calls[p].raised
              /\ \A i \in 1..Len(calls[p].result) :
                    LET v == calls[p].result[i]
                    IN  VersionData(v.version, v.timestamp, v.changes, v.response)
                            \in calls[p].present
        /\ (calls[p].op = "get_version" /\ calls[p].pc = "done") =>
              /\ ~calls[p].raised
              /\ calls[p].vanished => calls[p].result = None

\* a load_versions that has returned one version and skipped another whose
\* file disappeared or was being rewritten when the scan came to read it
C16_Witness ==
    \E p \in Procs :
        /\ calls[p].op = "load_versions" /\ calls[p].pc = "done"
        /\ calls[p].skipped > 0
        /\ calls[p].result # <<>>

-----------------------------------------------------------------------------
(* The HTTP endpoints of routers/transcript_versions.py over the store,     *)
(* one request at a time                                                    *)

\* POST /{audio_hash}/versions, lines 97-127.  request.response is a
\* DeepgramResponse model, which json.dump cannot serialise: save_version
\* opens v{n}.json, dumps the keys before "response", and raises TypeError,
\* which its except IOError does not handle; the endpoint answers 500.  The
\* metadata is not written.
ApiSaveVersion(response, changes) ==
    LET version_num == _load_metadata(metaFile).next_version
    IN  /\ version_num \in VersionNumbers
        /\ files' = [files EXCEPT ![version_num] = Corrupt]
        /\ ret' = [op |-> "api_save_version", status |-> 500]
        /\ UNCHANGED <<metaFile, cache, clock, allocated, faults>>
        /\ UNCHANGED editVars
        /\ UNCHANGED jobVars
        /\ UNCHANGED callVars

\* the delete endpoint without the check of lines 208-213
ApiDeleteVersion_unguarded(version_id) ==
    /\ IF ~Exists(files[version_id])
       THEN /\ ret' = [op |-> "api_delete_version", arg |-> version_id, status |-> 404]
            /\ UNCHANGED <<files, metaFile>>
       ELSE /\ files' = [files EXCEPT ![version_id] = Absent]
            /\ metaFile' = _save_metadata(RemoveVersion(_load_metadata(metaFile), version_id))
            /\ ret' = [op |-> "api_delete_version", arg |-> version_id, status |-> 200]
    /\ UNCHANGED <<cache, clock, allocated, faults>>
    /\ UNCHANGED editVars
    /\ UNCHANGED jobVars
    /\ UNCHANGED callVars

\* DELETE /{audio_hash}/versions/{version_id}, lines 207-233
ApiDeleteVersion(version_id) ==
    /\ IF version_id = 0
       THEN /\ ret' = [op |-> "api_delete_version", arg |-> version_id, status |-> 400]
            /\ UNCHANGED <<files, metaFile>>
       ELSE IF ~Exists(files[version_id])
       THEN /\ ret' = [op |-> "api_delete_version", arg |-> version_id, status |-> 404]
            /\ UNCHANGED <<files, metaFile>>
       ELSE /\ files' = [files EXCEPT ![version_id] = Absent]
            /\ metaFile' = _save_metadata(RemoveVersion(_load_metadata(metaFile), version_id))
            /\ ret' = [op |-> "api_delete_version", arg |-> version_id, status |-> 200]
    /\ UNCHANGED <<cache, clock, allocated, faults>>
    /\ UNCHANGED editVars
    /\ UNCHANGED jobVars
    /\ UNCHANGED callVars

\* POST /{audio_hash}/initialize, lines 318-335: the cached raw response is a
\* dict, which save_version can dump
ApiInitializeFromCache ==
    /\ IF get_version(files, 0) # None \/ \A cache_file \in cache : ~HasRawResponse(cache_file)
       THEN /\ ret' = [op |-> "api_initialize_from_cache", status |-> 404]
            /\ UNCHANGED <<files, metaFile, clock, allocated>>
       ELSE \E cache_file \in cache :
               LET saved == save_version(files, metaFile, RawResponse(cache_file),
                                         CacheChanges, clock)
               IN  /\ HasRawResponse(cache_file)
                   /\ clock < MaxSaves
                   /\ saved.version \in VersionNumbers
                   /\ files' = saved.files
                   /\ metaFile' = saved.metaFile
                   /\ clock' = clock + 1
                   /\ allocated' = Append(allocated, saved.version)
                   /\ ret' = [op |-> "api_initialize_from_cache", status |-> 200]
    /\ UNCHANGED <<cache, faults>>
    /\ UNCHANGED editVars
    /\ UNCHANGED jobVars
    /\ UNCHANGED callVars

NextApi ==
    \/ \E response \in Responses, changes \in Changes : ApiSaveVersion(response, changes)
    \/ \E version_id \in VersionNumbers : ApiDeleteVersion(version_id)
    \/ ApiInitializeFromCache

SpecApi == InitStore /\ [][NextApi]_vars

\* C17: the delete endpoint rejects every request for version 0 and leaves
\* the store as it was; once version 0 exists, no save, delete or initialize
\* request removes or replaces it.
C17_VersionZeroKept ==
    [][/\ (ret'.op = "api_delete_version" /\ ret'.arg = 0) =>
              /\ ret'.status = 400
              /\ files' = files
              /\ metaFile' = metaFile
       /\ Parses(files[0]) => files'[0] = files[0]]_vars

\* a delete request for version 0 rejected while version 0 and the file of a
\* later save are on disk
C17_Witness ==
    /\ ret.op = "api_delete_version"
    /\ ret.arg = 0
    /\ ret.status = 400
    /\ Parses(files[0])
    /\ \E n \in VersionNumbers \ {0} : Exists(files[n])

-----------------------------------------------------------------------------
(* Time queries: find_word_at_time and get_words_in_time_range *)

\* bisect.bisect_right: the insertion point after the entries equal to x
RECURSIVE bisect_right(_, _, _, _)
bisect_right(a, x, lo, hi) ==
    IF lo < hi
    THEN LET mid == (lo + hi) \div 2
         IN  IF RLt(x, a[mid + 1]) THEN bisect_right(a, x, lo, mid)
             ELSE bisect_right(a, x, mid + 1, hi)
    ELSE lo

\* bisect.bisect_left(a, x), positions counted from 0
RECURSIVE bisect_left(_, _, _, _)
bisect_left(a, x, lo, hi) ==
    IF lo < hi
    THEN LET mid == (lo + hi) \div 2
         IN  IF RLt(a[mid + 1], x) THEN bisect_left(a, x, mid + 1, hi)
             ELSE bisect_left(a, x, lo, mid)
    ELSE lo

\* lines 483-487: the loop over [idx - 1, idx]; <<>> is None
RECURSIVE CheckWords(_, _, _)
CheckWords(words, time, check) ==
    IF check = <<>> THEN <<>>
    ELSE LET check_idx == Head(check)
         IN  IF /\ 0 <= check_idx
                /\ check_idx < Len(words)
                /\ RLe(words[check_idx + 1].start, time)
                /\ RLe(time, words[check_idx + 1].end)
             THEN <<words[check_idx + 1]>>
             ELSE CheckWords(words, time, Tail(check))

find_word_at_time(response, time) ==
    LET words == response.words
        word_starts == [i \in 1..Len(words) |-> words[i].start]
        idx == bisect_left(word_starts, time, 0, Len(word_starts))
    IN  CheckWords(words, time, <<idx - 1, idx>>)

get_words_in_time_range(response, start_time, end_time) ==
    SelectSeq(response.words,
              LAMBDA word : RLe(word.start, end_time) /\ RLe(start_time, word.end))

\* word lists with whole-second starts and ends, start <= end, in
\* non-decreasing order of start; the intervals may overlap, as they can
\* after an edit

RECURSIVE QueryTimings(_)
QueryTimings(n) ==
    IF n = 0 THEN {<<>>}
    ELSE LET shorter == QueryTimings(n - 1)
             longest == {ts \in shorter : Len(ts) = n - 1}
         IN  shorter \cup
             {Append(x[1], <<x[2], x[3]>>) :
                 x \in {y \in longest \X (0..MaxTime) \X (0..MaxTime) :
                           /\ y[2] <= y[3]
                           /\ y[1] = <<>> \/ y[1][Len(y[1])][1] <= y[2]}}

QueryDocument(timings) ==
    LET ws == [i \in 1..Len(timings) |->
                  WordData(<<"a">>, R(timings[i][1], 1), R(timings[i][2], 1),
                           ProviderConfidence, 0, ProviderSpeakerConfidence,
                           <<"a">>, i - 1)]
    IN  [words |-> ws, paragraphs |-> [has |-> FALSE, list |-> <<>>],
         transcript |-> Transcript(ws), duration |-> R(MaxTime, 1)]

QueryDocuments == {QueryDocument(ts) : ts \in QueryTimings(MaxQueryWords)}

\* query times: every half second up to the end of the audio
QueryTimes == {R(k, 2) : k \in 0..(2 * MaxTime)}
RangeTimes == {R(k, 1) : k \in 0..MaxTime}

InitQuery ==
    /\ doc \in QueryDocuments
    /\ paras = [done |-> FALSE, list |-> <<>>]
    /\ upd = NoCall
    /\ edits = 0
    /\ rc = Idle
    /\ qry = NoQuery
    /\ JobsUnused
    /\ StoreUnused

FindWordAtTime(time) ==
    /\ qry = NoQuery
    /\ qry' = [op |-> "find_word_at_time", time |-> time,
               result |-> find_word_at_time(doc, time)]
    /\ UNCHANGED <<doc, paras, upd, edits, rc>>
    /\ UNCHANGED storeVars
    /\ UNCHANGED jobVars

\* the range check of the endpoint requiring only start_time <= end_time
ApiGetWordsInRange_lax(start_time, end_time, found) ==
    /\ qry = NoQuery
    /\ qry' = IF RLt(end_time, start_time)
              THEN [op |-> "get_words_in_range", start_time |-> start_time,
                    end_time |-> end_time, status |-> 400, words |-> <<>>]
              ELSE IF ~found
              THEN [op |-> "get_words_in_range", start_time |-> start_time,
                    end_time |-> end_time, status |-> 404, words |-> <<>>]
              ELSE [op |-> "get_words_in_range", start_time |-> start_time,
                    end_time |-> end_time, status |-> 200,
                    words |-> <<get_words_in_time_range(doc, start_time, end_time)>>]
    /\ UNCHANGED <<doc, paras, upd, edits, rc>>
    /\ UNCHANGED storeVars
    /\ UNCHANGED jobVars

\* GET /{audio_hash}/words/in-range, routers/transcript_versions.py lines
\* 605-638: the range check, the version looked up (found: it is there, and
\* it is doc), the processor's scan.  words is <<>> when no list is returned.
ApiGetWordsInRange(start_time, end_time, found) ==
    /\ qry = NoQuery
    /\ qry' = IF RLe(end_time, start_time)
              THEN [op |-> "get_words_in_range", start_time |-> start_time,
                    end_time |-> end_time, status |-> 400, words |-> <<>>]
              ELSE IF ~found
              THEN [op |-> "get_words_in_range", start_time |-> start_time,
                    end_time |-> end_time, status |-> 404, words |-> <<>>]
              ELSE [op |-> "get_words_in_range", start_time |-> start_time,
                    end_time |-> end_time, status |-> 200,
                    words |-> <<get_words_in_time_range(doc, start_time, end_time)>>]
    /\ UNCHANGED <<doc, paras, upd, edits, rc>>
    /\ UNCHANGED storeVars
    /\ UNCHANGED jobVars

NextQuery ==
    \/ \E time \in QueryTimes : FindWordAtTime(time)
    \/ \E start_time \in RangeTimes, end_time \in RangeTimes, found \in BOOLEAN :
          ApiGetWordsInRange(start_time, end_time, found)

SpecQuery == InitQuery /\ [][NextQuery]_vars

-----------------------------------------------------------------------------
(* Properties of the time queries *)

\* the first position (from 0) whose start is >= t, Len(ws) when there is none
FirstStartAtOrAfter(ws, t) ==
    IF \E i \in 1..Len(ws) : RLe(t, ws[i].start)
    THEN (CHOOSE i \in 1..Len(ws) :
             /\ RLe(t, ws[i].start)
             /\ \A j \in 1..(i - 1) : RLt(ws[j].start, t)) - 1
    ELSE Len(ws)

Contains(w, t) == RLe(w.start, t) /\ RLe(t, w.end)

Timings(ws) == [i \in 1..Len(ws) |-> <<ws[i].start, ws[i].end>>]

\* the words (0,1), (1,2), (3,4) of the example
ExampleTimings == <<<<R(0, 1), R(1, 1)>>, <<R(1, 1), R(2, 1)>>, <<R(3, 1), R(4, 1)>>>>

\* C18: on words sorted by start, find_word_at_time takes idx, the first
\* position whose start is >= t, and returns the word at idx - 1 if its
\* closed interval contains t, else the word at idx if its interval contains
\* t, else None; on (0,1), (1,2), (3,4) it returns word 0 at 0.5 and at 1,
\* and None at 2.5.
C18_WordAt ==
    qry.op = "find_word_at_time" =>
        LET ws == doc.words
            t == qry.time
            idx == FirstStartAtOrAfter(ws, t)
        IN  /\ qry.result =
                   IF idx >= 1 /\ Contains(ws[idx], t) THEN <<ws[idx]>>
                   ELSE IF idx < Len(ws) /\ Contains(ws[idx + 1], t) THEN <<ws[idx + 1]>>
                   ELSE <<>>
            /\ Timings(ws) = ExampleTimings =>
                   /\ t = R(1, 2) => qry.result = <<ws[1]>>
                   /\ t = R(1, 1) => qry.result = <<ws[1]>>
                   /\ t = R(5, 2) => qry.result = <<>>

\* the query at t = 1 on the example, answered with word 0
C18_Witness ==
    /\ qry.op = "find_word_at_time"
    /\ Timings(doc.words) = ExampleTimings
    /\ qry.time = R(1, 1)
    /\ qry.result = <<doc.words[1]>>

\* C19: the range query fails with "invalid range" (400), returning no word
\* list, whenever start >= end; when start < end it does not fail for the
\* range, and what it returns is the list of the words overlapping
\* [start, end], the empty list when there is none.
C19_RangeCheck ==
    qry.op = "get_words_in_range" =>
        IF RLe(qry.end_time, qry.start_time)
        THEN qry.status = 400 /\ qry.words = <<>>
        ELSE /\ qry.status # 400
             /\ qry.status = 200 =>
                   /\ Len(qry.words) = 1
                   /\ qry.words[1] = SelectSeq(doc.words,
                                        LAMBDA w : /\ RLe(w.start, qry.end_time)
                                                   /\ RLe(qry.start_time, w.end))
                   /\ (\A i \in 1..Len(doc.words) :
                          \/ RLt(qry.end_time, doc.words[i].start)
                          \/ RLt(doc.words[i].end, qry.start_time))
                      => qry.words = <<<<>>>>

\* a query with start = end rejected although a word contains that instant
C19_Witness ==
    /\ qry.op = "get_words_in_range"
    /\ qry.start_time = qry.end_time
    /\ qry.status = 400
    /\ \E i \in 1..Len(doc.words) : Contains(doc.words[i], qry.start_time)

-----------------------------------------------------------------------------
(* Reconciliation of paragraphs whose display text carries punctuation *)

\* the provider's words with punctuation: word "a" shown as "a", word "b"
\* shown as "B." (word is the bare lower-case form, punctuated_word the
\* display form)
PunctuatedWord(i) ==
    WordData(IF i % 2 = 1 THEN <<"a">> ELSE <<"b">>,
             WordStart("contiguous", i), WordEnd("contiguous", i),
             ProviderConfidence, 0, ProviderSpeakerConfidence,
             IF i % 2 = 1 THEN <<"a">> ELSE <<"B", ".">>, NoIndex)

PunctuatedDocument(n) ==
    LET ws == [i \in 1..n |-> PunctuatedWord(i)]
    IN  [words |-> ws, paragraphs |-> [has |-> FALSE, list |-> <<>>],
         transcript |-> Transcript(ws), duration |-> ws[n].end]

\* the tokens an editor types: a word as shown, or its bare form
ReuseTokens == {<<"a">>, <<"b">>, <<"B", ".">>}

RECURSIVE ReuseTokenSeqs(_)
ReuseTokenSeqs(n) ==
    IF n = 0 THEN {<<>>}
    ELSE LET S == ReuseTokenSeqs(n - 1)
         IN  S \cup {Append(ts, tok) : ts \in {u \in S : Len(u) = n - 1},
                                       tok \in ReuseTokens}

InitReuse ==
    /\ doc = NoDocument
    /\ paras = [done |-> FALSE, list |-> <<>>]
    /\ upd = NoCall
    /\ edits = 0
    /\ qry = NoQuery
    /\ JobsUnused
    /\ StoreUnused
    /\ \E n \in 1..MaxWords, ts \in ReuseTokenSeqs(MaxWords) :
          LET paragraph == extract_paragraphs(PunctuatedDocument(n))[1]
          IN  rc = [pc |-> "call",
                    original_text |-> paragraph.text,
                    new_text |-> join(ts),
                    original_words |-> paragraph.words,
                    out |-> <<>>]

SpecReuse == InitReuse /\ [][NextReconcile]_vars

\* C20: for every position i of the new tokens, if the original text has a
\* token at position i that equals the new token case-insensitively, output
\* word i carries original word i's start, end, confidence, speaker and
\* speaker confidence, with the new token as its display text; a token at a
\* position beyond the original length is synthesized.
C20_PositionReuse ==
    (rc.pc = "done" /\ rc.original_words # <<>>) =>
        LET original_tokens == split(rc.original_text)
            new_tokens == split(rc.new_text)
        IN  \A i \in 1..Len(new_tokens) :
               /\ (/\ i <= Len(original_tokens)
                   /\ i <= Len(rc.original_words)
                   /\ lower(original_tokens[i]) = lower(new_tokens[i])) =>
                      /\ i <= Len(rc.out)
                      /\ rc.out[i].start = rc.original_words[i].start
                      /\ rc.out[i].end = rc.original_words[i].end
                      /\ rc.out[i].confidence = rc.original_words[i].confidence
                      /\ rc.out[i].speaker = rc.original_words[i].speaker
                      /\ rc.out[i].speaker_confidence
                             = rc.original_words[i].speaker_confidence
                      /\ rc.out[i].punctuated_word = new_tokens[i]
               /\ i > Len(original_tokens) =>
                      /\ i <= Len(rc.out)
                      /\ rc.out[i].confidence = EditedConfidence
                      /\ rc.out[i].speaker_confidence = EditedConfidence

-----------------------------------------------------------------------------
(* Properties of the synthesis in calculate_timing_adjustments *)

\* the code's reuse test for the token at position i (from 1)
Reused(call, i) ==
    /\ i <= Len(call.original_words)
    /\ lower(call.original_words[i].word) = lower(split(call.new_text)[i])

\* (last word's end - first word's start) / len(original text), 0 for an
\* empty text
TimePerChar(call) ==
    IF Len(call.original_text) > 0
    THEN RDivInt(RSub(call.original_words[Len(call.original_words)].end,
                      call.original_words[1].start),
                 Len(call.original_text))
    ELSE Zero

\* the cursor when the token at position i is reached
CursorAt(call, i) ==
    IF i = 1 THEN call.original_words[1].start
    ELSE IF Reused(call, i - 1) THEN call.original_words[i - 1].end
    ELSE RAdd(call.out[i - 1].end, WordGap)

\* every non-reused token is synthesized at the cursor
SynthesisAtCursor(call) ==
    \A i \in 1..Len(split(call.new_text)) :
        (i <= Len(call.out) /\ ~Reused(call, i)) =>
            /\ call.out[i].start = CursorAt(call, i)
            /\ call.out[i].end = RAdd(CursorAt(call, i),
                                      RMulInt(Len(split(call.new_text)[i]), TimePerChar(call)))
            /\ call.out[i].confidence = EditedConfidence
            /\ call.out[i].speaker = call.original_words[1].speaker
            /\ call.out[i].speaker_confidence = EditedConfidence

\* one output word per whitespace token of the new text, in order, with
\* index equal to its position
OneWordPerToken(call) ==
    /\ Len(call.out) = Len(split(call.new_text))
    /\ \A i \in 1..Len(call.out) :
          /\ call.out[i].punctuated_word = split(call.new_text)[i]
          /\ call.out[i].index = i - 1

\* the call takes the loop: there are original words and the stripped texts differ
TakesLoop(call) ==
    /\ call.original_words # <<>>
    /\ strip(call.original_text) # strip(call.new_text)

\* C21 as stated: every non-reused token is synthesized at the cursor with
\* the fixed confidences and the first word's speaker, and the output has
\* exactly one word per token of the new text, in order, with index equal to
\* its position.
C21_Synthesis ==
    rc.pc = "done" =>
        /\ TakesLoop(rc) => SynthesisAtCursor(rc)
        /\ OneWordPerToken(rc)

\* C21, amended: when there are original words and the new text differs from
\* the original after stripping, every non-reused token is synthesized at
\* the cursor and the output has exactly one word per token of the new text,
\* in order, with index equal to its position.
C21_SynthesisOfChangedText ==
    (rc.pc = "done" /\ TakesLoop(rc)) =>
        /\ SynthesisAtCursor(rc)
        /\ OneWordPerToken(rc)

\* a changed text whose first token is reused and whose next two are synthesized
C21_Witness ==
    /\ rc.pc = "done"
    /\ TakesLoop(rc)
    /\ Len(rc.out) >= 3
    /\ Reused(rc, 1)
    /\ ~Reused(rc, 2)
    /\ ~Reused(rc, 3)
    /\ rc.out[3].start = RAdd(rc.out[2].end, WordGap)

-----------------------------------------------------------------------------
(* Segmenting a flat word list: _create_paragraphs_from_words *)

\* a recording of one speaker one word longer than a paragraph may be, its
\* words two seconds apart
LongDocument ==
    Document("paused", [i \in 1..(MaxParagraphWords + 1) |-> 0], "none")

InitSegment ==
    /\ doc \in Documents(Timelines \cup {"paused"}) \cup {LongDocument}
    /\ paras = [done |-> FALSE, list |-> <<>>]
    /\ upd = NoCall
    /\ edits = 0
    /\ rc = Idle
    /\ qry = NoQuery
    /\ JobsUnused
    /\ StoreUnused

NextSegment == ExtractParagraphs

SpecSegment == InitSegment /\ [][NextSegment]_vars

\* the words of the paragraphs, in order
RECURSIVE SegmentedWords(_)
SegmentedWords(ps) ==
    IF ps = <<>> THEN <<>> ELSE Head(ps).words \o SegmentedWords(Tail(ps))

\* the paragraph holding word i of the flat list, and the word's place in it
ParagraphAt(i) ==
    CHOOSE p \in 1..Len(paras.list) :
        \E j \in 1..Len(paras.list[p].words) : paras.list[p].words[j].index = i - 1

PositionIn(i) ==
    CHOOSE j \in 1..Len(paras.list[ParagraphAt(i)].words) :
        paras.list[ParagraphAt(i)].words[j].index = i - 1

\* the segmentation of a document without native structure is at hand
FallbackDone == paras.done /\ ~UsesNative(doc)

\* hi(speaker 0, 0-1), there(speaker 0, 1-2), bob(speaker 1, 4-5)
IsExample(ws) ==
    /\ Len(ws) = 3
    /\ <<ws[1].start, ws[1].end, ws[1].speaker>> = <<R(0, 1), R(1, 1), 0>>
    /\ <<ws[2].start, ws[2].end, ws[2].speaker>> = <<R(1, 1), R(2, 1), 0>>
    /\ <<ws[3].start, ws[3].end, ws[3].speaker>> = <<R(4, 1), R(5, 1), 1>>

\* C22: in the fallback segmentation a paragraph boundary falls between two
\* consecutive words exactly when the speaker differs from the current
\* paragraph's, or the gap is strictly greater than 2.0 seconds, or the
\* current paragraph already holds 100 words; every word lands in a
\* paragraph; every paragraph has one speaker and at most 100 words; the
\* example words yield the paragraphs of words 1-2 (speaker 0) and word 3
\* (speaker 1).
C22_FallbackBoundaries ==
    FallbackDone =>
        /\ SegmentedWords(paras.list) = doc.words
        /\ \A i \in 2..Len(doc.words) :
              (PositionIn(i) = 1) <=>
                  \/ doc.words[i].speaker # paras.list[ParagraphAt(i - 1)].speaker
                  \/ RLt(R(2, 1), RSub(doc.words[i].start, doc.words[i - 1].end))
                  \/ PositionIn(i - 1) >= 100
        /\ \A p \in 1..Len(paras.list) :
              /\ Len(paras.list[p].words) \in 1..100
              /\ \A j \in 1..Len(paras.list[p].words) :
                    paras.list[p].words[j].speaker = paras.list[p].speaker
        /\ IsExample(doc.words) =>
              /\ Len(paras.list) = 2
              /\ paras.list[1].words = SubSeq(doc.words, 1, 2)
              /\ paras.list[1].text = join(<<doc.words[1].punctuated_word,
                                             doc.words[2].punctuated_word>>)
              /\ paras.list[1].speaker = 0
              /\ paras.list[2].words = SubSeq(doc.words, 3, 3)
              /\ paras.list[2].text = doc.words[3].punctuated_word
              /\ paras.list[2].speaker = 1

\* 101 words of one speaker, each exactly 2.0 seconds after the one before
\* from the third on, are cut after the hundredth word and nowhere else
C22_Witness ==
    /\ FallbackDone
    /\ Len(doc.words) = MaxParagraphWords + 1
    /\ \A i \in 3..Len(doc.words) :
          RSub(doc.words[i].start, doc.words[i - 1].end) = R(2, 1)
    /\ Len(paras.list) = 2
    /\ Len(paras.list[1].words) = 100
    /\ Len(paras.list[2].words) = 1

-----------------------------------------------------------------------------
(* Editing documents whose paragraph structure may hold a paragraph without
   words *)

\* alternative.paragraphs with one paragraph of one sentence that carries
\* the text and an empty "words" list
WordlessStructure(ws) ==
    [has |-> TRUE,
     list |-> <<[sentences |-> <<[text |-> Transcript(ws), words |-> <<>>]>>]>>]

\* a transcript string made of the bare words
BareTranscript(ws) == join([i \in 1..Len(ws) |-> ws[i].word])

\* alternative.transcript is a field of its own: the display texts joined by
\* single spaces, or the bare words
WordlessDocuments ==
    UNION {{[d EXCEPT !.paragraphs = WordlessStructure(d.words)],
            [d EXCEPT !.paragraphs = WordlessStructure(d.words),
                      !.transcript = BareTranscript(d.words)]} :
              d \in {d \in Documents({"contiguous"}) : ~UsesNative(d)}}

InitWordless ==
    /\ doc \in Documents({"contiguous", "spaced"}) \cup WordlessDocuments
    /\ paras = [done |-> FALSE, list |-> <<>>]
    /\ upd = NoCall
    /\ edits = 0
    /\ rc = Idle
    /\ qry = NoQuery
    /\ JobsUnused
    /\ StoreUnused

SpecWordless == InitWordless /\ [][NextEdit]_vars

\* index k on the word at position k, and the transcript the display texts
\* joined by single spaces
IndexedAndJoined(response) ==
    /\ \A k \in 1..Len(response.words) : response.words[k].index = k - 1
    /\ response.transcript = join([k \in 1..Len(response.words) |->
                                      response.words[k].punctuated_word])

\* C23 as stated: after every update_paragraph_text call that returns, on
\* either segmentation path, the returned document's flat word list has
\* index k on the word at position k and its transcript is the display texts
\* of its words joined by single spaces.
C23_IndexAndTranscript ==
    upd.status = "ok" => IndexedAndJoined(upd.result)

\* C23, amended: after every update_paragraph_text call whose target
\* paragraph has words, the returned document's flat word list has index k
\* on the word at position k; after every call that returns, its transcript
\* is the display texts of its words joined by single spaces.
C23_IndexAndTranscriptOfSplice ==
    upd.status = "ok" =>
        /\ upd.target[1].words # <<>> => IndexedAndJoined(upd.result)
        /\ upd.result.transcript
               = join([k \in 1..Len(upd.result.words) |->
                          upd.result.words[k].punctuated_word])

\* an edit on the native path that changes the number of words of a
\* paragraph followed by another one
C23_Witness ==
    /\ upd.status = "ok"
    /\ UsesNative(upd.arg)
    /\ upd.target[1].words # <<>>
    /\ SpanEnd(upd.target[1]) < Len(upd.arg.words)
    /\ Len(upd.result.words) # Len(upd.arg.words)
    /\ IndexedAndJoined(upd.result)

\* C24 as stated: if the target paragraph's words list is empty, the
\* returned document equals the input document in every field.
C24_EmptyParagraphUnchanged ==
    (upd.status = "ok" /\ upd.target[1].words = <<>>) => upd.result = upd.arg

\* C24, amended: if the target paragraph's words list is empty, the returned
\* document has the input's flat word list with the indices it carried and
\* the input's other fields, and its transcript is the display texts of the
\* words joined by single spaces.
C24_EmptyParagraphKeepsWords ==
    (upd.status = "ok" /\ upd.target[1].words = <<>>) =>
        /\ upd.adjusted = <<>>
        /\ upd.result.words = upd.arg.words
        /\ upd.result.paragraphs = upd.arg.paragraphs
        /\ upd.result.duration = upd.arg.duration
        /\ upd.result.transcript
               = join([k \in 1..Len(upd.arg.words) |-> upd.arg.words[k].punctuated_word])

\* an edit of a paragraph without words in a document of two words whose
\* transcript was not the joined display texts
C24_Witness ==
    /\ upd.status = "ok"
    /\ upd.target[1].words = <<>>
    /\ Len(upd.new_text) > 0
    /\ Len(upd.arg.words) >= 2
    /\ upd.result.words = upd.arg.words
    /\ upd.result.transcript # upd.arg.transcript

-----------------------------------------------------------------------------
(* Properties of cleanup_orphaned_files *)

\* the version files a metadata entry references (by file name)
Referenced(metadata_file) ==
    {_load_metadata(metadata_file).versions[i].filename :
        i \in 1..Len(_load_metadata(metadata_file).versions)}

\* C25: cleanup_orphaned_files deletes exactly the version files on disk
\* that no metadata entry references, leaves metadata.json and every
\* referenced artifact as they are, and returns the number of files it
\* deleted; afterwards every version file on disk is referenced by metadata.
C25_CleanupExact ==
    [][ret'.op = "cleanup_orphaned_files" =>
          /\ \A n \in VersionNumbers :
                files'[n] = IF Exists(files[n]) /\ n \notin Referenced(metaFile)
                            THEN Absent ELSE files[n]
          /\ metaFile' = metaFile
          /\ ret'.result = Cardinality({n \in VersionNumbers :
                                           Exists(files[n]) /\ ~Exists(files'[n])})
          /\ \A n \in VersionNumbers : Exists(files'[n]) => n \in Referenced(metaFile')]_vars

\* a cleanup that removed an unreferenced version file and kept a referenced one
C25_Witness ==
    /\ ret.op = "cleanup_orphaned_files"
    /\ ret.result >= 1
    /\ \E n \in Referenced(metaFile) : Exists(files[n])
    /\ \E n \in VersionNumbers : n \notin Referenced(metaFile) /\ n < metaFile.next_version + 1
                                 /\ ~Exists(files[n])

-----------------------------------------------------------------------------
(* Consistency of the version store under sequential calls without faults *)

\* C26: after any sequence of save_version, delete_version,
\* initialize_from_cache and cleanup_orphaned_files calls made one at a time
\* without faults, the version numbers listed in metadata are the numbers of
\* the version files on disk, no number is listed twice, next_version is
\* greater than every listed number, and get_version(n) returns a document
\* exactly when n is among the versions load_versions returns.
C26_StoreConsistency ==
    LET metadata == _load_metadata(metaFile)
    IN  /\ Listed(metaFile) = {n \in VersionNumbers : Exists(files[n])}
        /\ \A i, j \in 1..Len(metadata.versions) :
              metadata.versions[i].version = metadata.versions[j].version => i = j
        /\ \A n \in Listed(metaFile) : n < metadata.next_version
        /\ \A n \in VersionNumbers :
              (get_version(files, n) # None)
                  <=> \E i \in 1..Len(load_versions(files, metaFile)) :
                         load_versions(files, metaFile)[i].version = n

\* a store after a cache import, saves, a deletion and a cleanup: a freed
\* number below a listed one
C26_Witness ==
    /\ ret.op = "cleanup_orphaned_files"
    /\ Len(allocated) >= 3
    /\ \E n \in Listed(metaFile) : \E k \in 0..(n - 1) : k \notin Listed(metaFile)
    /\ \E n \in Listed(metaFile) : get_version(files, n) \in {"r0", "r0_result"}

-----------------------------------------------------------------------------
(* Visibility of an edit in the re-segmented document *)

\* the paragraphs of the document the edit was applied to
ParagraphsBefore == extract_paragraphs(upd.pre)

\* the caller has re-segmented the document returned by a successful edit
\* whose new text is not blank
Resegmented ==
    /\ upd.status = "ok"
    /\ split(upd.new_text) # <<>>
    /\ paras.done

\* C27: after a successful update_paragraph_text with a non-blank text T,
\* extract_paragraphs on the returned document yields a paragraph with the
\* edited id whose text is T with whitespace normalized to single spaces,
\* and every other paragraph keeps its id and text, on both segmentation
\* paths.
C27_EditVisible ==
    Resegmented =>
        /\ \E k \in 1..Len(paras.list) :
              /\ paras.list[k].id = upd.paragraph_id
              /\ paras.list[k].text = join(split(upd.new_text))
        /\ \A q \in 1..Len(ParagraphsBefore) :
              ParagraphsBefore[q].id # upd.paragraph_id =>
                  \E k \in 1..Len(paras.list) :
                      /\ paras.list[k].id = ParagraphsBefore[q].id
                      /\ paras.list[k].text = ParagraphsBefore[q].text

\* C28: on a word list with non-decreasing start, whatever the ends,
\* find_word_at_time returns a word whose interval contains t whenever some
\* word's interval contains t; it returns None only if none does.
C28_FindsContainingWord ==
    qry.op = "find_word_at_time" =>
        ((\E i \in 1..Len(doc.words) : Contains(doc.words[i], qry.time))
            => /\ qry.result # <<>>
               /\ Contains(qry.result[1], qry.time))

-----------------------------------------------------------------------------
(* One writer of versions at a time, deletions and reads alongside it *)

Saving(p) == calls[p].op = "save_version" /\ calls[p].pc # "done"
Deleting(p) == calls[p].op = "delete_version" /\ calls[p].pc # "done"

\* a save_version call begun while no other save_version call is running,
\* for a number that no running delete_version call is deleting
SerializedSaveBegin(p, response, changes) ==
    /\ \A q \in Procs \ {p} : ~Saving(q)
    /\ \A q \in Procs \ {p} :
          Deleting(q) => calls[q].version # _load_metadata(metaFile).next_version
    /\ SaveBegin(p, response, changes)

\* a delete_version call begun while no other delete_version call is
\* running, for a version that no running save_version call is writing
OtherVersionDeleteBegin(p, version) ==
    /\ \A q \in Procs \ {p} : ~Deleting(q)
    /\ \A q \in Procs \ {p} : Saving(q) => calls[q].version_num # version
    /\ DeleteBegin(p, version)

NextSingleWriter ==
    \E p \in Procs :
        \/ \E response \in Responses, changes \in Changes :
              SerializedSaveBegin(p, response, changes)
        \/ SaveOpenArtifact(p)
        \/ SaveDumpArtifact(p)
        \/ SaveOpenMetadata(p)
        \/ SaveDumpMetadata(p)
        \/ \E version \in VersionNumbers : OtherVersionDeleteBegin(p, version)
        \/ DeleteUnlink(p)
        \/ DeleteLoadMetadata(p)
        \/ DeleteOpenMetadata(p)
        \/ DeleteDumpMetadata(p)
        \/ LoadBegin(p)
        \/ LoadExists(p)
        \/ LoadRead(p)
        \/ \E version \in VersionNumbers : GetBegin(p, version)
        \/ GetRead(p)

SpecSingleWriter == InitConcurrent /\ [][NextSingleWriter]_vars

\* every call has returned
Quiescent == \A p \in Procs : calls[p].pc = "done"

\* C29: with save_version calls serialized, a delete_version call for another
\* version running alongside a save_version call does not make the save's
\* metadata entry disappear (once all calls have returned, every saved
\* version file still on disk is listed), does not roll next_version back
\* (it stays above every allocated number), and no later save_version is
\* allocated a number already used.
C29_DeleteKeepsSaves ==
    /\ \A i \in 1..Len(allocated) : \A j \in 1..(i - 1) : allocated[j] < allocated[i]
    /\ Quiescent =>
          \A i \in 1..Len(allocated) :
              /\ Exists(files[allocated[i]]) => allocated[i] \in Listed(metaFile)
              /\ allocated[i] < _load_metadata(metaFile).next_version

-----------------------------------------------------------------------------
(* Transcription jobs: WebTranscriptionManager on the asyncio event loop.
   The coroutines run on one thread; an action is the code a coroutine runs
   between two awaits. *)

MaxConcurrentJobs == 3          \* self.max_concurrent_jobs = 3

TranscriptionProgress(status, progress, message) ==
    [status |-> status, progress |-> progress, message |-> message]

\* progress_steps of _simulate_progress_updates
ProgressSteps ==
    <<<<40, "Uploading audio to transcription service...">>,
      <<50, "Transcription in progress...">>,
      <<70, "Processing speaker diarization...">>,
      <<85, "Generating output formats...">>,
      <<95, "Finalizing transcription...">>>>

\* the store and the processor play no part in the behaviours of the job manager
InitJobs ==
    /\ doc = NoDocument
    /\ paras = [done |-> FALSE, list |-> <<>>]
    /\ upd = NoCall
    /\ edits = 0
    /\ rc = Idle
    /\ qry = NoQuery
    /\ StoreUnused
    /\ JobsUnused

OthersUnchanged ==
    /\ UNCHANGED editVars
    /\ UNCHANGED storeVars

\* job.message and job.progress set, then await self._broadcast_progress
Progress(job_id, progress, message) ==
    [active_jobs EXCEPT ![job_id] = [@ EXCEPT !.progress = progress, !.message = message]]

\* start_transcription, lines 48-64
StartTranscription ==
    LET job_id == Len(active_jobs) + 1
    IN  /\ job_id \in JobIds
        /\ active_jobs' = Append(active_jobs,
                                 TranscriptionProgress("processing", 0,
                                                       "Queued for transcription..."))
        /\ job_queue' = Append(job_queue, job_id)
        /\ UNCHANGED <<processing_jobs, tasks, cancelled>>
        /\ OthersUnchanged

\* cancel_job, lines 72-78
cancel_job(jobs, job_id) ==
    IF job_id \in 1..Len(jobs) /\ jobs[job_id].status = "processing"
    THEN [result |-> TRUE,
          jobs |-> [jobs EXCEPT ![job_id] = [@ EXCEPT !.status = "error",
                                                      !.message = "Job cancelled by user"]]]
    ELSE [result |-> FALSE, jobs |-> jobs]

CancelJob(job_id) ==
    /\ active_jobs' = cancel_job(active_jobs, job_id).jobs
    /\ cancelled' = IF cancel_job(active_jobs, job_id).result
                    THEN cancelled \cup {job_id} ELSE cancelled
    /\ UNCHANGED <<job_queue, processing_jobs, tasks>>
    /\ OthersUnchanged

\* _process_job_queue, line 98: a job taken from the queue
ProcessGet ==
    /\ tasks.processor = <<>>
    /\ job_queue # <<>>
    /\ tasks' = [tasks EXCEPT !.processor = <<Head(job_queue)>>]
    /\ job_queue' = Tail(job_queue)
    /\ UNCHANGED <<active_jobs, processing_jobs, cancelled>>
    /\ OthersUnchanged

\* lines 101-106: once fewer than max_concurrent_jobs are running, the job
\* is added to processing_jobs and its task created
ProcessStart ==
    /\ tasks.processor # <<>>
    /\ Cardinality(processing_jobs) < MaxConcurrentJobs
    /\ processing_jobs' = processing_jobs \cup {tasks.processor[1]}
    /\ tasks' = [tasks EXCEPT !.processor = <<>>, !.run[tasks.processor[1]] = "starting"]
    /\ UNCHANGED <<active_jobs, job_queue, cancelled>>
    /\ OthersUnchanged

\* _run_transcription, lines 135-140
RunStarting(job_id) ==
    /\ tasks.run[job_id] = "starting"
    /\ active_jobs' = Progress(job_id, 5, "Starting transcription...")
    /\ tasks' = [tasks EXCEPT !.run[job_id] = "preparing"]
    /\ UNCHANGED <<job_queue, processing_jobs, cancelled>>
    /\ OthersUnchanged

\* lines 143-145
RunPreparing(job_id) ==
    /\ tasks.run[job_id] = "preparing"
    /\ active_jobs' = Progress(job_id, 10, "Preparing transcription...")
    /\ tasks' = [tasks EXCEPT !.run[job_id] = "finding"]
    /\ UNCHANGED <<job_queue, processing_jobs, cancelled>>
    /\ OthersUnchanged

\* lines 148-160: the audio file looked up; without it the exception of line
\* 155 is handled at lines 191-197
RunFindAudio(job_id, found) ==
    /\ tasks.run[job_id] = "finding"
    /\ IF found
       THEN /\ active_jobs' = Progress(job_id, 20, "Transcribing...")
            /\ tasks' = [tasks EXCEPT !.run[job_id] = "processing_audio"]
       ELSE /\ active_jobs' = [active_jobs EXCEPT ![job_id] =
                                  [@ EXCEPT !.status = "error",
                                            !.message = "Transcription error"]]
            /\ tasks' = [tasks EXCEPT !.run[job_id] = "cleanup"]
    /\ UNCHANGED <<job_queue, processing_jobs, cancelled>>
    /\ OthersUnchanged

\* lines 163-165
RunProcessingAudio(job_id) ==
    /\ tasks.run[job_id] = "processing_audio"
    /\ active_jobs' = Progress(job_id, 30, "Processing audio file...")
    /\ tasks' = [tasks EXCEPT !.run[job_id] = "launch"]
    /\ UNCHANGED <<job_queue, processing_jobs, cancelled>>
    /\ OthersUnchanged

\* lines 169-171: the progress task created, the workflow handed to the executor
RunLaunch(job_id) ==
    /\ tasks.run[job_id] = "launch"
    /\ tasks' = [tasks EXCEPT !.run[job_id] = "executor",
                              !.sim[job_id] = [pc |-> "check", step |-> 1]]
    /\ UNCHANGED <<active_jobs, job_queue, processing_jobs, cancelled>>
    /\ OthersUnchanged

\* lines 181-197: the workflow has returned a result or raised
RunFinish(job_id, outcome) ==
    /\ tasks.run[job_id] = "executor"
    /\ active_jobs' =
           [active_jobs EXCEPT ![job_id] =
               IF outcome = "success"
               THEN TranscriptionProgress("completed", 100,
                                          "Transcription completed successfully")
               ELSE IF outcome = "failure"
               THEN [@ EXCEPT !.status = "error", !.message = "Transcription failed"]
               ELSE [@ EXCEPT !.status = "error", !.message = "Transcription error"]]
    /\ tasks' = [tasks EXCEPT !.run[job_id] = "cleanup"]
    /\ UNCHANGED <<job_queue, processing_jobs, cancelled>>
    /\ OthersUnchanged

\* _run_transcription_with_cleanup, lines 116-117
RunCleanup(job_id) ==
    /\ tasks.run[job_id] = "cleanup"
    /\ processing_jobs' = processing_jobs \ {job_id}
    /\ tasks' = [tasks EXCEPT !.run[job_id] = "done"]
    /\ UNCHANGED <<active_jobs, job_queue, cancelled>>
    /\ OthersUnchanged

\* _simulate_progress_updates, lines 213-217: the next step, unless the job
\* is no longer PROCESSING
SimCheck(job_id) ==
    LET sim == tasks.sim[job_id]
    IN  /\ sim.pc = "check"
        /\ tasks' = [tasks EXCEPT !.sim[job_id] =
                        IF sim.step > Len(ProgressSteps)
                           \/ active_jobs[job_id].status # "processing"
                        THEN [pc |-> "done", step |-> sim.step]
                        ELSE [pc |-> "sleep", step |-> sim.step]]
        /\ UNCHANGED <<active_jobs, job_queue, processing_jobs, cancelled>>
        /\ OthersUnchanged

\* lines 219-222: after the sleep the step is shown if the job is still PROCESSING
SimWake(job_id) ==
    LET sim == tasks.sim[job_id]
    IN  /\ sim.pc = "sleep"
        /\ active_jobs' = IF active_jobs[job_id].status = "processing"
                          THEN Progress(job_id, ProgressSteps[sim.step][1],
                                        ProgressSteps[sim.step][2])
                          ELSE active_jobs
        /\ tasks' = [tasks EXCEPT !.sim[job_id] = [pc |-> "check", step |-> sim.step + 1]]
        /\ UNCHANGED <<job_queue, processing_jobs, cancelled>>
        /\ OthersUnchanged

Outcomes == {"success", "failure", "exception"}

NextJobs ==
    \/ StartTranscription
    \/ \E job_id \in JobIds : CancelJob(job_id)
    \/ ProcessGet
    \/ ProcessStart
    \/ \E job_id \in JobIds :
          \/ RunStarting(job_id)
          \/ RunPreparing(job_id)
          \/ \E found \in BOOLEAN : RunFindAudio(job_id, found)
          \/ RunProcessingAudio(job_id)
          \/ RunLaunch(job_id)
          \/ \E outcome \in Outcomes : RunFinish(job_id, outcome)
          \/ RunCleanup(job_id)
          \/ SimCheck(job_id)
          \/ SimWake(job_id)

SpecJobs == InitJobs /\ [][NextJobs]_vars

\* C30: once cancel_job has returned True for a job, the job's status is
\* ERROR in every later state: no step of the queue processor, of
\* _run_transcription or of _simulate_progress_updates sets it to COMPLETED
\* or back to PROCESSING.
C30_CancellationFinal ==
    \A job_id \in cancelled : active_jobs[job_id].status = "error"

====
